---- MODULE Spec2Model ----
(***************************************************************************)
(* Model of the lathe monitoring backend (src/fastapi_backend.py): the     *)
(* metric helpers calculate_health_score, calculate_uptime and             *)
(* get_lathe_status, and the request handlers that apply them to the       *)
(* SensoryData / JobDetails collections of each lathe.                     *)
(*                                                                         *)
(* Python floats are modelled as exact rationals [n, d] in lowest terms,   *)
(* d > 0.  Document values are tagged: a number, a string or a null.       *)
(* The last part models the navigation of the dashboard front end          *)
(* (src/streamlit_frontend.py): session_state and the page it renders.     *)
(***************************************************************************)
EXTENDS Integers, Sequences, FiniteSets, TLC

VARIABLES collections, sensory, jobs, call, result, session_state, page

vars == <<collections, sensory, jobs, call, result, session_state, page>>

\* the state of the front end (src/streamlit_frontend.py)
frontend == <<session_state, page>>

\* the state of the backend
backend == <<collections, sensory, jobs, call, result>>

(***************************************************************************)
(* Bounds of the model.                                                    *)
(***************************************************************************)
\* longest reading batch handed to calculate_health_score
MaxBatch == 2

\* scores handed to get_lathe_status: k/10 for |k| <= MaxScoreTenths
MaxScoreTenths == 1100

\* clock readings are 0..MaxTime
MaxTime == 1

\* most job records in the collection calculate_uptime is applied to
MaxUptimeJobs == 2

\* most readings and most job records in the database (all lathes together)
MaxReadings == 2

MaxJobs == 2

\* most job records in a collection get_lathe_product_analysis is applied to
MaxProductJobs == 3

\* most entries of a summary response shown by the front end
MaxListed == 5

(***************************************************************************)
(* Rational arithmetic (Python float expressions, computed exactly).       *)
(***************************************************************************)
Abs(x) == IF x < 0 THEN -x ELSE x

RECURSIVE GCD(_, _)
GCD(a, b) == IF b = 0 THEN a ELSE GCD(b, a % b)

LCM(a, b) == (a \div GCD(a, b)) * b

\* the rational n/d (d > 0) in lowest terms
Rat(n, d) ==
    LET g == GCD(Abs(n), d)
    IN  [n |-> n \div g, d |-> d \div g]

R(i) == [n |-> i, d |-> 1]

RAdd(a, b) ==
    LET l == LCM(a.d, b.d)
    IN  Rat(a.n * (l \div a.d) + b.n * (l \div b.d), l)

RNeg(a) == [n |-> -a.n, d |-> a.d]

RSub(a, b) == RAdd(a, RNeg(b))

RMul(a, b) ==
    LET g1 == GCD(Abs(a.n), b.d)
        g2 == GCD(Abs(b.n), a.d)
    IN  Rat((a.n \div g1) * (b.n \div g2), (a.d \div g2) * (b.d \div g1))

\* a / b for b > 0
RDiv(a, b) == RMul(a, [n |-> b.d, d |-> b.n])

RLe(a, b) == a.n * b.d <= b.n * a.d

RLt(a, b) == a.n * b.d < b.n * a.d

\* Python's max(a, b) and min(a, b): the first argument unless the second
\* is strictly larger (smaller)
PyMax(a, b) == IF RLt(a, b) THEN b ELSE a

PyMin(a, b) == IF RLt(b, a) THEN b ELSE a

RECURSIVE SeqSum(_)
SeqSum(s) == IF s = <<>> THEN 0 ELSE Head(s) + SeqSum(Tail(s))

\* np.mean of a non-empty list of integers
Mean(values) == Rat(SeqSum(values), Len(values))

(***************************************************************************)
(* Document values.                                                        *)
(***************************************************************************)
Num(v) == [t |-> "num", v |-> v]

Str == [t |-> "str", v |-> 0]

Null == [t |-> "null", v |-> 0]

\* isinstance(x, (int, float))
IsNumber(x) == x.t = "num"

\* a batch element that is not a dict (`metric in d` raises TypeError)
NotADict == [t |-> "notdict", v |-> 0]

IsDict(d) == "t" \notin DOMAIN d

(***************************************************************************)
(* calculate_health_score                                                  *)
(***************************************************************************)
Metrics == {"Temperature", "Vibration", "RPM", "Power", "ToolWear"}

\* metrics[metric] after the extraction loop: the numeric values of the
\* field, in batch order; missing and non-numeric entries are skipped
ExtractMetric(lathe_data, metric) ==
    LET Observed(d) == metric \in DOMAIN d /\ IsNumber(d[metric])
        kept == SelectSeq(lathe_data, Observed)
    IN  [i \in 1..Len(kept) |-> kept[i][metric].v]

ExtractMetrics(lathe_data) ==
    [metric \in Metrics |-> ExtractMetric(lathe_data, metric)]

\* the extraction loop raises when an element of the batch is not a dict
ExtractionRaises(lathe_data) ==
    \E i \in 1..Len(lathe_data) : ~IsDict(lathe_data[i])

\* mutant: a field with no observed value is scored as ideal instead of 0
ScoresMissingAsIdeal(metrics) ==
    [temp  |-> IF metrics["Temperature"] # <<>>
               THEN RSub(R(1), RDiv(RSub(Mean(metrics["Temperature"]), R(25)), R(100)))
               ELSE R(1),
     vib   |-> IF metrics["Vibration"] # <<>>
               THEN RSub(R(1), RDiv(Mean(metrics["Vibration"]), R(10)))
               ELSE R(1),
     rpm   |-> IF metrics["RPM"] # <<>>
               THEN RDiv(Mean(metrics["RPM"]), R(3000))
               ELSE R(1),
     power |-> IF metrics["Power"] # <<>>
               THEN RSub(R(1), RDiv(Mean(metrics["Power"]), R(15)))
               ELSE R(1),
     wear  |-> IF metrics["ToolWear"] # <<>>
               THEN RSub(R(1), RDiv(Mean(metrics["ToolWear"]), R(100)))
               ELSE R(1)]

\* the per-field sub-scores
Scores(metrics) ==
    [temp  |-> IF metrics["Temperature"] # <<>>
               THEN RSub(R(1), RDiv(RSub(Mean(metrics["Temperature"]), R(25)), R(100)))
               ELSE R(0),
     vib   |-> IF metrics["Vibration"] # <<>>
               THEN RSub(R(1), RDiv(Mean(metrics["Vibration"]), R(10)))
               ELSE R(0),
     rpm   |-> IF metrics["RPM"] # <<>>
               THEN RDiv(Mean(metrics["RPM"]), R(3000))
               ELSE R(0),
     power |-> IF metrics["Power"] # <<>>
               THEN RSub(R(1), RDiv(Mean(metrics["Power"]), R(15)))
               ELSE R(0),
     wear  |-> IF metrics["ToolWear"] # <<>>
               THEN RSub(R(1), RDiv(Mean(metrics["ToolWear"]), R(100)))
               ELSE R(0)]

\* mutant: the weights of rpm and power exchanged
WeightedAverageSwapped(scores) ==
    RAdd(RAdd(RAdd(RAdd(RMul(Rat(1, 5), scores.temp),
                        RMul(Rat(3, 20), scores.vib)),
                   RMul(Rat(1, 5), scores.rpm)),
              RMul(Rat(1, 4), scores.power)),
         RMul(Rat(1, 5), scores.wear))

\* the weighted average of the sub-scores (0.2 = 1/5, 0.15 = 3/20, 0.25 = 1/4)
WeightedAverage(scores) ==
    RAdd(RAdd(RAdd(RAdd(RMul(Rat(1, 5), scores.temp),
                        RMul(Rat(3, 20), scores.vib)),
                   RMul(Rat(1, 4), scores.rpm)),
              RMul(Rat(1, 5), scores.power)),
         RMul(Rat(1, 5), scores.wear))

\* mutant: the lower clamp is missing
ClampUpperOnly(x) == PyMin(R(100), x)

\* max(0, min(100, x))
Clamp(x) == PyMax(R(0), PyMin(R(100), x))

\* outcome of a call: a returned value, or an exception reaching the caller
Return(v) == [raised |-> FALSE, value |-> v]

Raised == [raised |-> TRUE, value |-> R(0)]

\* the body of the try block
ScoreTryBody(lathe_data) ==
    IF ExtractionRaises(lathe_data) THEN Raised
    ELSE Return(Clamp(RMul(WeightedAverage(Scores(ExtractMetrics(lathe_data))), R(100))))

\* mutant: no except clause, a fault in the body reaches the caller
calculate_health_score_no_except(lathe_data) ==
    IF lathe_data = <<>> THEN Return(R(0))
    ELSE ScoreTryBody(lathe_data)

calculate_health_score(lathe_data) ==
    IF lathe_data = <<>> THEN Return(R(0))
    ELSE LET r == ScoreTryBody(lathe_data)
         IN  IF r.raised THEN Return(R(0)) ELSE r

(***************************************************************************)
(* get_lathe_status                                                        *)
(***************************************************************************)
\* mutant: strict comparisons at the thresholds
get_lathe_status_strict(health_score) ==
    IF RLt(R(80), health_score) THEN "Operational"
    ELSE IF RLt(R(60), health_score) THEN "Warning"
    ELSE "Failure"

get_lathe_status(health_score) ==
    IF RLe(R(80), health_score) THEN "Operational"
    ELSE IF RLe(R(60), health_score) THEN "Warning"
    ELSE "Failure"

(***************************************************************************)
(* The database: the collections that exist, and the documents of each     *)
(* lathe's SensoryData and JobDetails collections.  sensory[l] lists the   *)
(* readings of lathe l in insertion order.  Where the readings carry no    *)
(* timestamp field (the specifications without a time window) they were    *)
(* recorded in that order.  jobs[l] lists its job records in insertion     *)
(* order.                                                                  *)
(***************************************************************************)
sensory_col(lathe_id) == <<lathe_id, "SensoryData">>

job_col(lathe_id) == <<lathe_id, "JobDetails">>

collection_exists(collection_name) == collection_name \in collections

(***************************************************************************)
(* calculate_uptime                                                        *)
(***************************************************************************)
IsCompleted(job) == "Status" \in DOMAIN job /\ job["Status"] = "Completed"

HasBothTimes(job) == "EndTime" \in DOMAIN job /\ "StartTime" \in DOMAIN job

RECURSIVE TotalDuration(_)
TotalDuration(js) ==
    IF js = <<>> THEN 0
    ELSE (IF HasBothTimes(Head(js))
          THEN Head(js)["EndTime"].v - Head(js)["StartTime"].v
          ELSE 0)
         + TotalDuration(Tail(js))

\* EndTime - StartTime raises TypeError when one of them is not a datetime
DurationRaises(js) ==
    \E i \in 1..Len(js) :
        /\ HasBothTimes(js[i])
        /\ ~(IsNumber(js[i]["EndTime"]) /\ IsNumber(js[i]["StartTime"]))

\* mutant: the zero-denominator guard yields 0.0
UptimeRatioZeroDefault(operational_time, downtime) ==
    IF RLt(R(0), RAdd(operational_time, downtime))
    THEN RDiv(operational_time, RAdd(operational_time, downtime))
    ELSE R(0)

\* operational / (operational + downtime) if (operational + downtime) > 0 else 1.0
UptimeRatio(operational_time, downtime) ==
    IF RLt(R(0), RAdd(operational_time, downtime))
    THEN RDiv(operational_time, RAdd(operational_time, downtime))
    ELSE R(1)

\* max(0, min(100, uptime * 100))
UptimePercent(uptime) == Clamp(RMul(uptime, R(100)))

\* the body of the try block; damping is the value random.uniform(0.05, 0.15)
\* returned
UptimeTryBody(lathe_id, damping) ==
    IF ~collection_exists(job_col(lathe_id)) THEN Return(R(100))
    ELSE LET completed == SelectSeq(jobs[lathe_id], IsCompleted)
         IN  IF completed = <<>> THEN Return(R(100))
             ELSE IF DurationRaises(completed) THEN Raised
             ELSE LET total_duration == R(TotalDuration(completed))
                      operational_time == total_duration
                      downtime == RMul(operational_time, damping)
                  IN  Return(UptimePercent(UptimeRatio(operational_time, downtime)))

\* mutant: no except clause, a fault in the body reaches the caller
calculate_uptime_no_except(lathe_id, damping) == UptimeTryBody(lathe_id, damping)

calculate_uptime(lathe_id, damping) ==
    LET r == UptimeTryBody(lathe_id, damping)
    IN  IF r.raised THEN Return(R(100)) ELSE r

(***************************************************************************)
(* Queries shared by the request handlers.                                 *)
(***************************************************************************)
\* settings.default_lathe_count (DEFAULT_LATHE_COUNT, 10 unless configured):
\* create_indexes creates the two collections of the lathes
\* 1..default_lathe_count at start-up.  It is 1 here, so that lathe 2 has no
\* collection until a document is inserted
DefaultLatheCount == 1

\* .limit(1000) of the summary and details queries
RecentLimit == 1000

\* settings.max_history_hours (MAX_HISTORY_HOURS, 168 unless configured)
max_history_hours == 168

\* le=5000 of the limit parameters, le=50 of num_lathes
MaxLimit == 5000

MaxNumLathes == 50

\* raise HTTPException(status_code=code, ...)
HttpError(code) == [code |-> code]

\* mutant: only the lower end of the range is enforced
QueryAcceptsAbove(value, ge, le) == ge <= value

\* Query(..., ge=ge, le=le): a value outside ge..le is answered 422 by the
\* request validation, before the handler body runs
QueryAccepts(value, ge, le) == ge <= value /\ value <= le

Reverse(s) == [i \in 1..Len(s) |-> s[Len(s) + 1 - i]]

\* the sort key of a document: its timestamp; a document without one sorts
\* before every dated document
Timestamp(d) ==
    IF "timestamp" \in DOMAIN d /\ IsNumber(d["timestamp"])
    THEN d["timestamp"].v
    ELSE -1

\* d placed into a list sorted by timestamp, after the documents that are
\* not later than it
RECURSIVE InsertByTimestamp(_, _)
InsertByTimestamp(sorted, d) ==
    IF sorted = <<>> THEN <<d>>
    ELSE IF Timestamp(Head(sorted)) <= Timestamp(d)
    THEN <<Head(sorted)>> \o InsertByTimestamp(Tail(sorted), d)
    ELSE <<d>> \o sorted

\* mutant: the documents are left in insertion order
SortAscendingNone(docs) == docs

\* .sort("timestamp", 1): documents with equal timestamps keep their
\* insertion order
RECURSIVE SortAscending(_)
SortAscending(docs) ==
    IF docs = <<>> THEN <<>>
    ELSE InsertByTimestamp(SortAscending(SubSeq(docs, 1, Len(docs) - 1)),
                           docs[Len(docs)])

\* find(...).sort("timestamp", -1).limit(n): the n latest, the latest first
Latest(docs, n) ==
    LET r == Reverse(SortAscending(docs))
    IN  SubSeq(r, 1, IF n < Len(r) THEN n ELSE Len(r))

\* find(...).sort("timestamp", 1).limit(n): the n earliest, the earliest first
Earliest(docs, n) ==
    LET r == SortAscending(docs)
    IN  SubSeq(r, 1, IF n < Len(r) THEN n ELSE Len(r))

\* a projection: the listed fields a document holds
Projection(d, keys) == [k \in (DOMAIN d) \cap keys |-> d[k]]

ProjectAll(docs, keys) == [i \in 1..Len(docs) |-> Projection(docs[i], keys)]

\* d.get(key): the value, or None
Get(d, key) == IF key \in DOMAIN d THEN d[key] ELSE Null

\* round(x, 1) for x >= 0: the nearest tenth, a tie going to the even one
Round1(x) ==
    LET q == (10 * x.n) \div x.d
        r == (10 * x.n) % x.d
    IN  IF 2 * r < x.d THEN Rat(q, 10)
        ELSE IF 2 * r > x.d THEN Rat(q + 1, 10)
        ELSE IF q % 2 = 0 THEN Rat(q, 10)
        ELSE Rat(q + 1, 10)

\* mutant: tool wear at the threshold counts as a failure
IsFailedJobAtThreshold(job) ==
    /\ "Status" \in DOMAIN job /\ job["Status"] = "Completed"
    /\ "FinalToolWear" \in DOMAIN job /\ job["FinalToolWear"] >= 90

\* {"Status": "Completed", "FinalToolWear": {"$gt": 90}}
IsFailedJob(job) ==
    /\ "Status" \in DOMAIN job /\ job["Status"] = "Completed"
    /\ "FinalToolWear" \in DOMAIN job /\ job["FinalToolWear"] > 90

(***************************************************************************)
(* get_all_lathes                                                          *)
(***************************************************************************)
\* the entry of a lathe without data (the name field, f"Lathe M{lathe_id}",
\* is left out of every entry)
SentinelEntry(lathe_id, status) ==
    [lathe_id |-> lathe_id, health_score |-> R(0), uptime |-> R(0),
     status |-> status, failure_count |-> 0]

\* mutant: an empty fetch is scored like any other batch
SummaryEntryScored(lathe_id, damping) ==
    IF ~collection_exists(sensory_col(lathe_id)) \/ ~collection_exists(job_col(lathe_id))
    THEN SentinelEntry(lathe_id, "Offline")
    ELSE LET sensor_data == ProjectAll(Latest(sensory[lathe_id], RecentLimit), Metrics)
             health_score == calculate_health_score(sensor_data).value
             uptime == calculate_uptime(lathe_id, damping).value
             status == get_lathe_status(health_score)
             failure_count == Len(SelectSeq(jobs[lathe_id], IsFailedJob))
         IN  [lathe_id |-> lathe_id,
              health_score |-> Round1(health_score),
              uptime |-> Round1(uptime),
              status |-> status,
              failure_count |-> failure_count]

\* one iteration of the loop over the lathes
SummaryEntry(lathe_id, damping) ==
    IF ~collection_exists(sensory_col(lathe_id)) \/ ~collection_exists(job_col(lathe_id))
    THEN SentinelEntry(lathe_id, "Offline")
    ELSE LET sensor_data == ProjectAll(Latest(sensory[lathe_id], RecentLimit), Metrics)
         IN  IF sensor_data = <<>> THEN SentinelEntry(lathe_id, "No Data")
             ELSE LET health_score == calculate_health_score(sensor_data).value
                      uptime == calculate_uptime(lathe_id, damping).value
                      status == get_lathe_status(health_score)
                      failure_count == Len(SelectSeq(jobs[lathe_id], IsFailedJob))
                  IN  [lathe_id |-> lathe_id,
                       health_score |-> Round1(health_score),
                       uptime |-> Round1(uptime),
                       status |-> status,
                       failure_count |-> failure_count]

\* dampings[i] is the value random.uniform returns in iteration i
get_all_lathes(num_lathes, dampings) ==
    IF ~QueryAccepts(num_lathes, 1, MaxNumLathes) THEN HttpError(422)
    ELSE [code |-> 200,
          body |-> [lathe_id \in 1..num_lathes |->
                       SummaryEntry(lathe_id, dampings[lathe_id])]]

\* The database operations of one iteration that can raise: the listing of
\* the collections (collection_exists), the fetch of the readings, the reads
\* of calculate_uptime, the count of the failed jobs.
FaultPoints == {"list_collection_names", "find", "calculate_uptime", "count_documents"}

NoFault == "none"

\* the fault is raised: the operation is reached by the iteration
FaultOccurs(lathe_id, fault) ==
    CASE fault = NoFault -> FALSE
      [] fault = "list_collection_names" -> TRUE
      [] fault = "find" ->
             collection_exists(sensory_col(lathe_id)) /\ collection_exists(job_col(lathe_id))
      [] OTHER ->
             /\ collection_exists(sensory_col(lathe_id))
             /\ collection_exists(job_col(lathe_id))
             /\ sensory[lathe_id] # <<>>

\* mutant: a failed fetch of the readings is taken for an empty one
SummaryEntryWithFaultEmpty(lathe_id, damping, fault) ==
    IF ~FaultOccurs(lathe_id, fault) THEN SummaryEntry(lathe_id, damping)
    ELSE CASE fault = "list_collection_names" -> SentinelEntry(lathe_id, "Offline")
           [] fault = "find" -> SentinelEntry(lathe_id, "No Data")
           [] fault = "calculate_uptime" ->
                  [SummaryEntry(lathe_id, damping) EXCEPT !.uptime = Round1(R(100))]
           [] fault = "count_documents" -> SentinelEntry(lathe_id, "Error")

\* one iteration of the loop over the lathes, in which the database
\* operation `fault` raises: collection_exists catches the exception and
\* returns False, calculate_uptime catches it and returns 100.0, the
\* except clause of the iteration catches the others
SummaryEntryWithFault(lathe_id, damping, fault) ==
    IF ~FaultOccurs(lathe_id, fault) THEN SummaryEntry(lathe_id, damping)
    ELSE CASE fault = "list_collection_names" -> SentinelEntry(lathe_id, "Offline")
           [] fault = "find" -> SentinelEntry(lathe_id, "Error")
           [] fault = "calculate_uptime" ->
                  [SummaryEntry(lathe_id, damping) EXCEPT !.uptime = Round1(R(100))]
           [] fault = "count_documents" -> SentinelEntry(lathe_id, "Error")

\* get_all_lathes, faults[i] being the operation that raises in iteration i
get_all_lathes_with_faults(num_lathes, dampings, faults) ==
    IF ~QueryAccepts(num_lathes, 1, MaxNumLathes) THEN HttpError(422)
    ELSE [code |-> 200,
          body |-> [lathe_id \in 1..num_lathes |->
                       SummaryEntryWithFault(lathe_id, dampings[lathe_id],
                                             faults[lathe_id])]]

(***************************************************************************)
(* get_lathe_details                                                       *)
(***************************************************************************)
\* In get_lathe_details `status` is a local variable (assigned from
\* get_lathe_status), so status.HTTP_404_NOT_FOUND evaluated before that
\* assignment raises UnboundLocalError, and so does
\* status.HTTP_500_INTERNAL_SERVER_ERROR in the except clause: the exception
\* leaves the handler and the server answers 500.
UnhandledError == [code |-> 500, detail |-> "Internal Server Error"]

DetailFields == Metrics \cup {"timestamp", "JobID"}

\* mutant: every completed job counts as a failure
details_failure_count_all(lathe_id) ==
    IF collection_exists(job_col(lathe_id))
    THEN Len(SelectSeq(jobs[lathe_id], IsCompleted))
    ELSE 0

\* count_documents({Status: Completed, FinalToolWear: {$gt: 90}}) if the job
\* collection exists, else 0
details_failure_count(lathe_id) ==
    IF collection_exists(job_col(lathe_id))
    THEN Len(SelectSeq(jobs[lathe_id], IsFailedJob))
    ELSE 0

\* find_one({}, {...}, sort=[("timestamp", -1)])
find_current_job(lathe_id) ==
    Projection(Latest(sensory[lathe_id], 1)[1], DetailFields)

\* the metrics and the returned dict, for the batch sensor_data and the
\* document current_job; the fields jobs_completed_today and
\* daily_job_target are left out
details_response(lathe_id, damping, sensor_data, current_job) ==
    LET health_score == calculate_health_score(sensor_data).value
        uptime == calculate_uptime(lathe_id, damping).value
        status == get_lathe_status(health_score)
        failure_count == details_failure_count(lathe_id)
    IN  [code |-> 200,
         body |-> [lathe_id |-> lathe_id,
                   health_score |-> Round1(health_score),
                   uptime |-> Round1(uptime),
                   status |-> status,
                   failure_count |-> failure_count,
                   current_job |-> current_job,
                   current_temperature |-> Get(current_job, "Temperature"),
                   current_vibration |-> Get(current_job, "Vibration"),
                   current_rpm |-> Get(current_job, "RPM"),
                   current_power |-> Get(current_job, "Power"),
                   current_tool_wear |-> Get(current_job, "ToolWear")]]

\* the handler, served without a write to the database between its reads
get_lathe_details(lathe_id, damping) ==
    IF ~collection_exists(sensory_col(lathe_id)) THEN UnhandledError
    ELSE LET sensor_data == ProjectAll(Latest(sensory[lathe_id], RecentLimit), DetailFields)
         IN  IF sensor_data = <<>> THEN UnhandledError
             ELSE details_response(lathe_id, damping, sensor_data,
                                   find_current_job(lathe_id))

(***************************************************************************)
(* get_lathe_sensor_data                                                   *)
(***************************************************************************)
\* [d[field] for d in sensor_data if field in d]
FieldValues(sensor_data, field) ==
    LET Has(d) == field \in DOMAIN d
        kept == SelectSeq(sensor_data, Has)
    IN  [i \in 1..Len(kept) |-> kept[i][field]]

\* min(values), max(values) or np.mean(values) raises TypeError when a value
\* is not a number
StatsRaise(values) == \E i \in 1..Len(values) : ~IsNumber(values[i])

SeqMin(values) ==
    CHOOSE x \in {values[i].v : i \in 1..Len(values)} :
        \A j \in 1..Len(values) : x <= values[j].v

SeqMax(values) ==
    CHOOSE x \in {values[i].v : i \in 1..Len(values)} :
        \A j \in 1..Len(values) : x >= values[j].v

safe_stats(values) ==
    IF values = <<>> THEN [min |-> R(0), max |-> R(0), avg |-> R(0)]
    ELSE [min |-> R(SeqMin(values)),
          max |-> R(SeqMax(values)),
          avg |-> Mean([i \in 1..Len(values) |-> values[i].v])]

SensorFields == Metrics \cup {"timestamp"}

get_lathe_sensor_data(lathe_id, limit) ==
    IF ~QueryAccepts(limit, 1, MaxLimit) THEN HttpError(422)
    ELSE IF ~collection_exists(sensory_col(lathe_id)) THEN HttpError(404)
    ELSE LET sensor_data == ProjectAll(Latest(sensory[lathe_id], limit), SensorFields)
         IN  IF sensor_data = <<>> THEN HttpError(404)
             ELSE IF \E field \in Metrics : StatsRaise(FieldValues(sensor_data, field))
             THEN HttpError(500)
             ELSE [code |-> 200,
                   body |-> [sensor_data |-> sensor_data,
                             stats |-> [field \in Metrics |->
                                           safe_stats(FieldValues(sensor_data, field))]]]

(***************************************************************************)
(* get_lathe_history                                                       *)
(***************************************************************************)
HistoryFields == Metrics \cup {"timestamp", "JobID"}

\* {"timestamp": {"$gte": start_time, "$lte": end_time}}
InWindow(d, start_time, end_time) ==
    /\ "timestamp" \in DOMAIN d
    /\ IsNumber(d["timestamp"])
    /\ start_time <= d["timestamp"].v
    /\ d["timestamp"].v <= end_time

\* response_model=List[SensorData]: a tracked field that is not a number and
\* not None fails the validation of the response, and the server answers 500
ResponseInvalid(sensor_data) ==
    \E i \in 1..Len(sensor_data) :
        \E field \in Metrics \cap DOMAIN sensor_data[i] :
            sensor_data[i][field].t = "str"

\* now is datetime.now(); the clock counts hours
get_lathe_history(lathe_id, hours, limit, now) ==
    IF ~QueryAccepts(hours, 1, max_history_hours) \/ ~QueryAccepts(limit, 1, MaxLimit)
    THEN HttpError(422)
    ELSE IF ~collection_exists(sensory_col(lathe_id)) THEN HttpError(404)
    ELSE LET end_time == now
             start_time == end_time - hours
             InRange(d) == InWindow(d, start_time, end_time)
             sensor_data ==
                 ProjectAll(Earliest(SelectSeq(sensory[lathe_id], InRange), limit),
                            HistoryFields)
         IN  IF sensor_data = <<>> THEN HttpError(404)
             ELSE IF ResponseInvalid(sensor_data) THEN UnhandledError
             ELSE [code |-> 200, body |-> sensor_data]

(***************************************************************************)
(* get_lathe_product_analysis                                              *)
(***************************************************************************)
JobFields == {"Material", "JobID", "FinalToolWear"}

\* mutant: the jobs of every status are fetched
CompletedJobsAnyStatus(lathe_id) == ProjectAll(jobs[lathe_id], JobFields)

\* find({"Status": "Completed"}, {"Material": 1, "JobID": 1, "FinalToolWear": 1})
CompletedJobs(lathe_id) ==
    ProjectAll(SelectSeq(jobs[lathe_id], IsCompleted), JobFields)

\* job.get("Material", "Unknown")
MaterialOf(job) == IF "Material" \in DOMAIN job THEN job["Material"] ELSE "Unknown"

\* product_types after the counting loop
RECURSIVE ProductTypes(_)
ProductTypes(js) ==
    IF js = <<>> THEN [material \in {} |-> 0]
    ELSE LET counted == ProductTypes(SubSeq(js, 1, Len(js) - 1))
             material == MaterialOf(js[Len(js)])
         IN  [m \in DOMAIN counted \cup {material} |->
                 (IF m \in DOMAIN counted THEN counted[m] ELSE 0)
                 + (IF m = material THEN 1 ELSE 0)]

\* job["JobID"] raises KeyError for a job that has a Material and no JobID
MaterialJobsRaise(js) ==
    \E i \in 1..Len(js) : "Material" \in DOMAIN js[i] /\ "JobID" \notin DOMAIN js[i]

\* [job["JobID"] for job in jobs if job.get("Material") == material]
MaterialJobs(js, material) ==
    LET OfMaterial(job) == "Material" \in DOMAIN job /\ job["Material"] = material
        kept == SelectSeq(js, OfMaterial)
    IN  [i \in 1..Len(kept) |-> kept[i]["JobID"]]

\* find({"JobID": {"$in": material_jobs}}, {the tracked fields}) if the
\* SensoryData collection exists, else []
MaterialSensorData(lathe_id, material_jobs) ==
    IF collection_exists(sensory_col(lathe_id))
    THEN LET InJobs(d) ==
                 /\ "JobID" \in DOMAIN d
                 /\ \E i \in 1..Len(material_jobs) : material_jobs[i] = d["JobID"]
         IN  ProjectAll(SelectSeq(sensory[lathe_id], InJobs), Metrics)
    ELSE <<>>

\* count_documents({"JobID": {"$in": material_jobs}, "FinalToolWear": {"$gt": 80}})
FailedJobCount(lathe_id, material_jobs) ==
    LET Failed(job) ==
            /\ "JobID" \in DOMAIN job
            /\ \E i \in 1..Len(material_jobs) : material_jobs[i] = job["JobID"]
            /\ "FinalToolWear" \in DOMAIN job
            /\ job["FinalToolWear"] > 80
    IN  Len(SelectSeq(jobs[lathe_id], Failed))

\* find({"JobID": job_id}, {the tracked fields}) if the collection exists
JobSensorData(lathe_id, job_id) ==
    IF collection_exists(sensory_col(lathe_id))
    THEN LET OfJob(d) == "JobID" \in DOMAIN d /\ d["JobID"] = job_id
         IN  ProjectAll(SelectSeq(sensory[lathe_id], OfJob), Metrics)
    ELSE <<>>

\* mutant: a job without readings adds the score of an empty batch
RECURSIVE HealthScoresOfAllJobs(_, _)
HealthScoresOfAllJobs(lathe_id, material_jobs) ==
    IF material_jobs = <<>> THEN <<>>
    ELSE <<calculate_health_score(JobSensorData(lathe_id, Head(material_jobs))).value>>
         \o HealthScoresOfAllJobs(lathe_id, Tail(material_jobs))

\* health_scores after the loop over material_jobs
RECURSIVE HealthScores(_, _)
HealthScores(lathe_id, material_jobs) ==
    IF material_jobs = <<>> THEN <<>>
    ELSE LET job_sensor_data == JobSensorData(lathe_id, Head(material_jobs))
         IN  (IF job_sensor_data # <<>>
              THEN <<calculate_health_score(job_sensor_data).value>>
              ELSE <<>>)
             \o HealthScores(lathe_id, Tail(material_jobs))

RECURSIVE RSum(_)
RSum(xs) == IF xs = <<>> THEN R(0) ELSE RAdd(Head(xs), RSum(Tail(xs)))

\* np.mean of a non-empty list of floats
RMean(xs) == RDiv(RSum(xs), R(Len(xs)))

\* product_quality[material]
ProductQuality(lathe_id, js, material) ==
    LET material_jobs == MaterialJobs(js, material)
        total_jobs == Len(material_jobs)
        failed_jobs == FailedJobCount(lathe_id, material_jobs)
        health_scores == HealthScores(lathe_id, material_jobs)
        avg_health_score == IF health_scores # <<>> THEN RMean(health_scores) ELSE R(0)
    IN  [failure_rate |-> IF total_jobs > 0
                          THEN Round1(RMul(Rat(failed_jobs, total_jobs), R(100)))
                          ELSE R(0),
         avg_health_score |-> Round1(avg_health_score)]

\* np.mean(values) if values else 0
safe_avg(values) ==
    IF values = <<>> THEN R(0)
    ELSE Mean([i \in 1..Len(values) |-> values[i].v])

\* params_by_type[material]
ParamsByType(sensor_data) ==
    [field \in Metrics |-> safe_avg(FieldValues(sensor_data, field))]

\* mutant: no material is skipped
AnalysedMaterialsAll(lathe_id, js) == DOMAIN ProductTypes(js)

\* the materials the loop does not leave with `continue`: those with a
\* reading of one of their jobs
AnalysedMaterials(lathe_id, js) ==
    {material \in DOMAIN ProductTypes(js) :
        MaterialSensorData(lathe_id, MaterialJobs(js, material)) # <<>>}

get_lathe_product_analysis(lathe_id) ==
    IF ~collection_exists(job_col(lathe_id)) THEN HttpError(404)
    ELSE LET js == CompletedJobs(lathe_id)
         IN  IF js = <<>> THEN HttpError(404)
             ELSE IF MaterialJobsRaise(js) THEN HttpError(500)
             ELSE LET analysed == AnalysedMaterials(lathe_id, js)
                      SensorDataOf(material) ==
                          MaterialSensorData(lathe_id, MaterialJobs(js, material))
                  IN  IF \E material \in analysed :
                             \E field \in Metrics :
                                 StatsRaise(FieldValues(SensorDataOf(material), field))
                      THEN HttpError(500)
                      ELSE [code |-> 200,
                            body |-> [product_types |-> ProductTypes(js),
                                      product_quality |->
                                          [material \in analysed |->
                                              ProductQuality(lathe_id, js, material)],
                                      params_by_type |->
                                          [material \in analysed |->
                                              ParamsByType(SensorDataOf(material))]]]

(***************************************************************************)
(* The dashboard front end (src/streamlit_frontend.py).  Every interaction *)
(* runs the script main() once, from the top: a button returns True in the *)
(* run triggered by a click on it, provided the run reaches the call that  *)
(* renders it; st.rerun() ends the run and starts another one.             *)
(* session_state.view is "unset" and selected_lathe is Unset until main()  *)
(* creates the key.  page is what the latest run left on the screen, with  *)
(* the click it processed and what it fetched from the backend.            *)
(***************************************************************************)
\* a key that session_state does not hold
Unset == [t |-> "unset", v |-> 0]

NoSession == [view |-> "unset", selected_lathe |-> Unset]

NoButton == [label |-> "none", key |-> 0]

\* st.button("View Details", key=f"btn_{lathe_id}")
ViewDetailsButton(lathe_id) == [label |-> "View Details", key |-> lathe_id]

\* st.button("<- Back")
BackButton == [label |-> "Back", key |-> 0]

\* st.button("<- Back to Dashboard")
BackToDashboardButton == [label |-> "Back to Dashboard", key |-> 0]

NoPage ==
    [shown |-> "nothing", buttons |-> {}, click |-> NoButton,
     lathes |-> <<>>, lathe_details |-> FALSE]

\* the body of a successful GET /lathes with n entries, as show_dashboard
\* uses it; an empty list stands for a failed request too
LatheList(n) == [i \in 1..n |-> [lathe_id |-> i]]

\* mutant: a button never returns True
PressedNever(button, click) == FALSE

\* the value st.button returns in a run triggered by `click`
Pressed(button, click) == click = button

\* not x, for a value of session_state
Falsy(x) == x = Null \/ x = Num(0)

\* the result of a run that ends in st.rerun()
Rerun(session) == [session |-> session, shown |-> "rerun", buttons |-> {}]

\* lathes is what get_all_lathes() returned
show_dashboard(session, click, lathes) ==
    IF lathes = <<>>
    THEN [session |-> session, shown |-> "no_lathes", buttons |-> {}]
    ELSE LET pressed == {idx \in 1..Len(lathes) :
                            Pressed(ViewDetailsButton(lathes[idx].lathe_id), click)}
         IN  IF pressed # {}
             THEN LET idx == CHOOSE i \in pressed : \A j \in pressed : i <= j
                  IN  Rerun([view |-> "lathe_details",
                             selected_lathe |-> Num(lathes[idx].lathe_id)])
             ELSE [session |-> session, shown |-> "dashboard",
                   buttons |-> {ViewDetailsButton(lathes[idx].lathe_id) :
                                   idx \in 1..Len(lathes)}]

\* lathe_details tells whether get_lathe_details(lathe_id) returned a dict
\* (TRUE) or None (FALSE)
show_lathe_details(session, click, lathe_details) ==
    IF session.selected_lathe = Unset \/ Falsy(session.selected_lathe)
    THEN Rerun([session EXCEPT !.view = "dashboard"])
    ELSE IF ~lathe_details
    THEN IF Pressed(BackToDashboardButton, click)
         THEN Rerun([session EXCEPT !.view = "dashboard"])
         ELSE [session |-> session, shown |-> "no_details",
               buttons |-> {BackToDashboardButton}]
    ELSE IF Pressed(BackButton, click)
         THEN Rerun([session EXCEPT !.view = "dashboard"])
         ELSE [session |-> session, shown |-> "details", buttons |-> {BackButton}]

\* the keys main() creates when they are missing
InitializeSession(session) ==
    [view |-> IF session.view = "unset" THEN "dashboard" ELSE session.view,
     selected_lathe |-> IF session.selected_lathe = Unset THEN Null
                        ELSE session.selected_lathe]

\* one run of main()
RunMain(session, click, lathes, lathe_details) ==
    LET initialized == InitializeSession(session)
    IN  IF initialized.view = "dashboard"
        THEN show_dashboard(initialized, click, lathes)
        ELSE IF initialized.view = "lathe_details"
        THEN show_lathe_details(initialized, click, lathe_details)
        ELSE [session |-> initialized, shown |-> "nothing", buttons |-> {}]

(***************************************************************************)
(* Input sets of the scoring specification.                                *)
(***************************************************************************)
IdealValue(metric) ==
    CASE metric = "Temperature" -> 25
      [] metric = "Vibration"   -> 0
      [] metric = "RPM"         -> 3000
      [] metric = "Power"       -> 0
      [] metric = "ToolWear"    -> 0

\* other values: inside the rated range and far outside it
OtherValues(metric) ==
    CASE metric = "Temperature" -> {-100, 75, 200}
      [] metric = "Vibration"   -> {5, 20}
      [] metric = "RPM"         -> {1500, 6000}
      [] metric = "Power"       -> {30}
      [] metric = "ToolWear"    -> {50, 150}

\* readings that observe any subset of the fields at the ideal value
IdealReadings ==
    {[metric \in S |-> Num(IdealValue(metric))] : S \in SUBSET Metrics}

\* readings with one field: a non-ideal number, a string or a null
SingleReadings ==
    UNION {{[m \in {metric} |-> x] :
               x \in {Str, Null} \cup {Num(v) : v \in OtherValues(metric)}} :
           metric \in Metrics}

ScoreReadings == IdealReadings \cup SingleReadings \cup {NotADict}

Batches == UNION {[1..n -> ScoreReadings] : n \in 0..MaxBatch}

NoResult == [kind |-> "none"]

\* lathe 1 is within settings.default_lathe_count, lathe 2 is beyond it
Lathes == {1, 2}

EmptyDb ==
    /\ collections = {}
    /\ sensory = [l \in Lathes |-> <<>>]
    /\ jobs = [l \in Lathes |-> <<>>]

StatusScores == {Rat(k, 10) : k \in -MaxScoreTenths..MaxScoreTenths}

(***************************************************************************)
(* SpecScore: calculate_health_score applied to a batch, get_lathe_status  *)
(* applied to a score.                                                     *)
(***************************************************************************)
InitScore ==
    /\ EmptyDb
    /\ call \in {[fn |-> "calculate_health_score", lathe_data |-> b] : b \in Batches}
            \cup {[fn |-> "get_lathe_status", health_score |-> x] : x \in StatusScores}
    /\ result = NoResult
    /\ session_state = NoSession
    /\ page = NoPage

CallHealthScore ==
    /\ call.fn = "calculate_health_score"
    /\ result = NoResult
    /\ result' = [kind |-> "score", out |-> calculate_health_score(call.lathe_data)]
    /\ UNCHANGED <<collections, sensory, jobs, call>>
    /\ UNCHANGED frontend

CallLatheStatus ==
    /\ call.fn = "get_lathe_status"
    /\ result = NoResult
    /\ result' = [kind |-> "status", out |-> Return(get_lathe_status(call.health_score))]
    /\ UNCHANGED <<collections, sensory, jobs, call>>
    /\ UNCHANGED frontend

NextScore == CallHealthScore \/ CallLatheStatus

SpecScore == InitScore /\ [][NextScore]_vars

(***************************************************************************)
(* SpecUptime: calculate_uptime applied to a job collection.               *)
(***************************************************************************)
Times == 0..MaxTime

\* values random.uniform(0.05, 0.15) can return, in percent
DampingPercents == {5, 10, 15}

Dampings == {Rat(p, 100) : p \in DampingPercents}

\* job records: any status, each timestamp present, missing or (EndTime) null
UptimeJobs ==
    UNION {{[Status |-> st]}
           \cup {[Status |-> st, StartTime |-> Num(a)] : a \in Times}
           \cup {[Status |-> st, EndTime |-> e] : e \in {Num(b) : b \in Times}}
           \cup {[Status |-> st, StartTime |-> Num(a), EndTime |-> e] :
                    a \in Times, e \in {Null} \cup {Num(b) : b \in Times}} :
           st \in {"Running", "Completed", "Failed"}}

InitUptime ==
    /\ sensory = [l \in Lathes |-> <<>>]
    /\ \/ /\ collections = {}
          /\ jobs = [l \in Lathes |-> <<>>]
       \/ /\ collections = {job_col(1)}
          /\ \E js \in UNION {[1..n -> UptimeJobs] : n \in 0..MaxUptimeJobs} :
                 jobs = [l \in Lathes |-> IF l = 1 THEN js ELSE <<>>]
    /\ call = [fn |-> "none"]
    /\ result = NoResult
    /\ session_state = NoSession
    /\ page = NoPage

CallUptime(lathe_id, damping) ==
    /\ result = NoResult
    /\ call' = [fn |-> "calculate_uptime", lathe_id |-> lathe_id, damping |-> damping]
    /\ result' = [kind |-> "uptime", out |-> calculate_uptime(lathe_id, damping)]
    /\ UNCHANGED <<collections, sensory, jobs>>
    /\ UNCHANGED frontend

NextUptime == \E damping \in Dampings : CallUptime(1, damping)

SpecUptime == InitUptime /\ [][NextUptime]_vars

(***************************************************************************)
(* Spec: summary and details requests served against a database that        *)
(* start-job requests, job updates and reading ingestion change.            *)
(* SpecReadings: details and sensor-data requests over readings of every    *)
(* kind, without job records.  call and result hold the latest              *)
(* request and its response, until the response is delivered; requests are  *)
(* served one at a time.                                                    *)
(***************************************************************************)
NoCall == [fn |-> "none"]

\* the reading the machines record in Spec: every field at its ideal value
IdealReading == [metric \in Metrics |-> Num(IdealValue(metric))]

\* the readings of SpecReadings: ideal, worn, and one whose Temperature is a
\* string
ReadingPayloads ==
    {IdealReading,
     [Temperature |-> Num(75), Vibration |-> Num(0), RPM |-> Num(1500),
      Power |-> Num(0), ToolWear |-> Num(0)],
     [Temperature |-> Str, Vibration |-> Num(0), RPM |-> Num(3000),
      Power |-> Num(0), ToolWear |-> Num(0)]}

\* job_id values of start-job requests; the empty one is rejected
JobIds == {"J1", ""}

Materials == {"A"}

ToolWears == {90, 95}

TotalDocs(coll) == Len(coll[1]) + Len(coll[2])

Init ==
    /\ collections = UNION {{sensory_col(l), job_col(l)} :
                               l \in {k \in Lathes : k <= DefaultLatheCount}}
    /\ sensory = [l \in Lathes |-> <<>>]
    /\ jobs = [l \in Lathes |-> <<>>]
    /\ call = NoCall
    /\ result = NoResult
    /\ session_state = NoSession
    /\ page = NoPage

\* a machine records a reading (insert into Lathe<l>.SensoryData)
IngestReading(l, reading) ==
    /\ result = NoResult
    /\ TotalDocs(sensory) < MaxReadings
    /\ sensory' = [sensory EXCEPT ![l] = Append(@, reading)]
    /\ collections' = collections \cup {sensory_col(l)}
    /\ UNCHANGED <<jobs, call, result>>
    /\ UNCHANGED frontend

\* a machine reports tool wear, or the end of a running job
UpdateJob(l, i, st, wear, now) ==
    /\ result = NoResult
    /\ i \in 1..Len(jobs[l])
    /\ jobs[l][i]["Status"] = "Running"
    /\ jobs' = [jobs EXCEPT ![l][i] =
                   IF st = "Running"
                   THEN [@ EXCEPT !["FinalToolWear"] = wear]
                   ELSE [k \in DOMAIN @ \cup {"EndTime"} |->
                            CASE k = "Status" -> st
                              [] k = "FinalToolWear" -> wear
                              [] k = "EndTime" -> Num(now)
                              [] OTHER -> @[k]]]
    /\ UNCHANGED <<collections, sensory, call, result>>
    /\ UNCHANGED frontend

\* mutant: tool_no is not validated
InvalidJobParametersNoTool(job_id, material, job_type, tool_no) ==
    job_id = "" \/ material = "" \/ job_type = ""

\* not job_id or not material or not job_type or tool_no < 1
InvalidJobParameters(job_id, material, job_type, tool_no) ==
    job_id = "" \/ material = "" \/ job_type = "" \/ tool_no < 1

\* mutant: the record is created with an EndTime
job_details_ended(lathe_id, job_id, material, job_type, tool_no, now) ==
    [JobID |-> job_id,
     LatheID |-> lathe_id,
     Material |-> material,
     JobType |-> job_type,
     ToolNo |-> tool_no,
     StartTime |-> Num(now),
     EndTime |-> Num(now),
     Status |-> "Running",
     FinalToolWear |-> 0,
     DailyJobTarget |-> 10]

\* the record start_new_job inserts
job_details(lathe_id, job_id, material, job_type, tool_no, now) ==
    [JobID |-> job_id,
     LatheID |-> lathe_id,
     Material |-> material,
     JobType |-> job_type,
     ToolNo |-> tool_no,
     StartTime |-> Num(now),
     Status |-> "Running",
     FinalToolWear |-> 0,
     DailyJobTarget |-> 10]

\* POST /lathes/{lathe_id}/start-job; now is datetime.now()
start_new_job(lathe_id, job_id, material, job_type, tool_no, now) ==
    /\ result = NoResult
    /\ TotalDocs(jobs) < MaxJobs
    /\ call' = [fn |-> "start_new_job", lathe_id |-> lathe_id, job_id |-> job_id,
                material |-> material, job_type |-> job_type, tool_no |-> tool_no]
    /\ IF InvalidJobParameters(job_id, material, job_type, tool_no)
       THEN /\ result' = [kind |-> "start_job", resp |-> HttpError(400)]
            /\ UNCHANGED <<collections, sensory, jobs>>
       ELSE /\ jobs' = [jobs EXCEPT ![lathe_id] =
                           Append(@, job_details(lathe_id, job_id, material,
                                                 job_type, tool_no, now))]
            /\ collections' = collections \cup {job_col(lathe_id)}
            /\ result' = [kind |-> "start_job", resp |-> [code |-> 200]]
            /\ UNCHANGED sensory
    /\ UNCHANGED frontend

\* GET /lathes
GetAllLathes(num_lathes, dampings) ==
    /\ result = NoResult
    /\ call' = [fn |-> "get_all_lathes", num_lathes |-> num_lathes]
    /\ result' = [kind |-> "fleet", resp |-> get_all_lathes(num_lathes, dampings)]
    /\ UNCHANGED <<collections, sensory, jobs>>
    /\ UNCHANGED frontend

\* GET /lathes, served while database operations raise
GetAllLathesWithFaults(num_lathes, dampings, faults) ==
    /\ result = NoResult
    /\ call' = [fn |-> "get_all_lathes", num_lathes |-> num_lathes,
                dampings |-> dampings, faults |-> faults]
    /\ result' = [kind |-> "fleet",
                  resp |-> get_all_lathes_with_faults(num_lathes, dampings, faults)]
    /\ UNCHANGED <<collections, sensory, jobs>>
    /\ UNCHANGED frontend

\* GET /lathes/{lathe_id}
GetLatheDetails(lathe_id, damping) ==
    /\ result = NoResult
    /\ call' = [fn |-> "get_lathe_details", lathe_id |-> lathe_id]
    /\ result' = [kind |-> "details", resp |-> get_lathe_details(lathe_id, damping)]
    /\ UNCHANGED <<collections, sensory, jobs>>
    /\ UNCHANGED frontend

\* GET /lathes/{lathe_id}, first part: the collection check and the fetch of
\* the batch.  The handler has not answered yet, and the machines go on
\* recording readings.
GetLatheDetailsFetch(lathe_id) ==
    /\ result = NoResult
    /\ call = NoCall
    /\ LET sensor_data == ProjectAll(Latest(sensory[lathe_id], RecentLimit), DetailFields)
       IN  IF ~collection_exists(sensory_col(lathe_id)) \/ sensor_data = <<>>
           THEN /\ call' = [fn |-> "get_lathe_details", lathe_id |-> lathe_id]
                /\ result' = [kind |-> "details", resp |-> UnhandledError]
           ELSE /\ call' = [fn |-> "get_lathe_details", lathe_id |-> lathe_id,
                            sensor_data |-> sensor_data]
                /\ result' = NoResult
    /\ UNCHANGED <<collections, sensory, jobs>>
    /\ UNCHANGED frontend

\* GET /lathes/{lathe_id}, second part: the metrics of the batch fetched,
\* find_one for current_job, the reads of the job collection, the answer
GetLatheDetailsReply(damping) ==
    /\ result = NoResult
    /\ call # NoCall
    /\ result' = [kind |-> "details",
                  resp |-> details_response(call.lathe_id, damping, call.sensor_data,
                                            find_current_job(call.lathe_id))]
    /\ UNCHANGED <<collections, sensory, jobs, call>>
    /\ UNCHANGED frontend

\* GET /lathes/{lathe_id}/sensor-data
GetLatheSensorData(lathe_id, limit) ==
    /\ result = NoResult
    /\ call' = [fn |-> "get_lathe_sensor_data", lathe_id |-> lathe_id, limit |-> limit]
    /\ result' = [kind |-> "sensor_data", resp |-> get_lathe_sensor_data(lathe_id, limit)]
    /\ UNCHANGED <<collections, sensory, jobs>>
    /\ UNCHANGED frontend

\* GET /lathes/{lathe_id}/history
GetLatheHistory(lathe_id, hours, limit, now) ==
    /\ result = NoResult
    /\ call' = [fn |-> "get_lathe_history", lathe_id |-> lathe_id, hours |-> hours,
                limit |-> limit, now |-> now]
    /\ result' = [kind |-> "history",
                  resp |-> get_lathe_history(lathe_id, hours, limit, now)]
    /\ UNCHANGED <<collections, sensory, jobs>>
    /\ UNCHANGED frontend

\* GET /lathes/{lathe_id}/product-analysis
GetLatheProductAnalysis(lathe_id) ==
    /\ result = NoResult
    /\ call' = [fn |-> "get_lathe_product_analysis", lathe_id |-> lathe_id]
    /\ result' = [kind |-> "product_analysis",
                  resp |-> get_lathe_product_analysis(lathe_id)]
    /\ UNCHANGED <<collections, sensory, jobs>>
    /\ UNCHANGED frontend

\* the response is delivered to the client
Respond ==
    /\ result # NoResult
    /\ call' = NoCall
    /\ result' = NoResult
    /\ UNCHANGED <<collections, sensory, jobs>>
    /\ UNCHANGED frontend

Next ==
    \/ \E l \in Lathes : IngestReading(l, IdealReading)
    \/ \E l \in Lathes, i \in 1..MaxJobs, st \in {"Running", "Completed", "Failed"},
          wear \in ToolWears :
           UpdateJob(l, i, st, wear, MaxTime)
    \/ \E l \in Lathes, job_id \in JobIds, material \in Materials :
           start_new_job(l, job_id, material, "Turning", 1, 0)
    \/ \E num_lathes \in Lathes :
           \E dampings \in [1..num_lathes -> Dampings] :
               GetAllLathes(num_lathes, dampings)
    \/ \E l \in Lathes, damping \in Dampings : GetLatheDetails(l, damping)
    \/ Respond

Spec == Init /\ [][Next]_vars

NextReadings ==
    \/ \E l \in Lathes, reading \in ReadingPayloads : IngestReading(l, reading)
    \/ \E l \in Lathes, damping \in Dampings : GetLatheDetails(l, damping)
    \/ \E l \in Lathes, limit \in 1..MaxReadings : GetLatheSensorData(l, limit)
    \/ Respond

SpecReadings == Init /\ [][NextReadings]_vars

(***************************************************************************)
(* SpecApi: every request of the API, served against a database that       *)
(* start-job requests, job updates and reading ingestion change.           *)
(***************************************************************************)
\* the reading of SpecApi: ideal, dated 0, recorded while job J1 runs
ApiReading ==
    [k \in Metrics \cup {"timestamp", "JobID"} |->
        CASE k = "timestamp" -> Num(0)
          [] k = "JobID" -> "J1"
          [] OTHER -> IdealReading[k]]

\* <<job_id, material, job_type, tool_no>> of the start-job requests: one
\* valid request, and one for each way of being invalid
StartJobRequests ==
    {<<"J1", "A", "Turning", 1>>,
     <<"", "A", "Turning", 1>>,
     <<"J1", "", "Turning", 1>>,
     <<"J1", "A", "", 1>>,
     <<"J1", "A", "Turning", 0>>}

NextApi ==
    \/ \E l \in Lathes : IngestReading(l, ApiReading)
    \/ \E l \in Lathes, i \in 1..MaxJobs, st \in {"Completed", "Failed"} :
           UpdateJob(l, i, st, 95, MaxTime)
    \/ \E l \in Lathes, req \in StartJobRequests :
           start_new_job(l, req[1], req[2], req[3], req[4], 0)
    \/ \E num_lathes \in Lathes :
           \E dampings \in [1..num_lathes -> Dampings] :
               GetAllLathes(num_lathes, dampings)
    \/ \E l \in Lathes, damping \in Dampings : GetLatheDetails(l, damping)
    \/ \E l \in Lathes : GetLatheHistory(l, 1, 1, 1)
    \/ \E l \in Lathes : GetLatheSensorData(l, 1)
    \/ \E l \in Lathes : GetLatheProductAnalysis(l)
    \/ Respond

SpecApi == Init /\ [][NextApi]_vars

(***************************************************************************)
(* SpecFleet: summary requests over machines that record good, failing and *)
(* blank readings; a start-job request creates the job collection of a     *)
(* machine that has none.                                                  *)
(***************************************************************************)
\* a reading that scores 20
FailingReading ==
    [Temperature |-> Num(75), Vibration |-> Num(5), RPM |-> Num(1500),
     Power |-> Num(30), ToolWear |-> Num(50)]

\* a reading without any tracked field
BlankReading == [JobID |-> "J1"]

FleetReadings == {IdealReading, FailingReading, BlankReading}

NextFleet ==
    \/ \E l \in Lathes, reading \in FleetReadings : IngestReading(l, reading)
    \/ \E l \in Lathes : start_new_job(l, "J1", "A", "Turning", 1, 0)
    \/ \E num_lathes \in Lathes :
           \E dampings \in [1..num_lathes -> Dampings] :
               GetAllLathes(num_lathes, dampings)
    \/ Respond

SpecFleet == Init /\ [][NextFleet]_vars

(***************************************************************************)
(* SpecFaults: summary requests during which database operations raise.    *)
(***************************************************************************)
NextFaults ==
    \/ \E l \in Lathes : IngestReading(l, FailingReading)
    \/ \E l \in Lathes : start_new_job(l, "J1", "A", "Turning", 1, 0)
    \/ \E l \in Lathes, i \in 1..MaxJobs : UpdateJob(l, i, "Completed", 95, MaxTime)
    \/ \E num_lathes \in Lathes :
           \E dampings \in [1..num_lathes -> Dampings],
              faults \in [1..num_lathes -> FaultPoints \cup {NoFault}] :
               GetAllLathesWithFaults(num_lathes, dampings, faults)
    \/ Respond

SpecFaults == Init /\ [][NextFaults]_vars

(***************************************************************************)
(* SpecSummary: summary and details requests over readings that score 100  *)
(* and readings that score just below 80.                                  *)
(***************************************************************************)
\* ideal but for the RPM: scores 75 + 25 * 595 / 3000 = 79.958...
SlowReading == [IdealReading EXCEPT !["RPM"] = Num(595)]

NextSummary ==
    \/ \E l \in Lathes, reading \in {IdealReading, SlowReading} :
           IngestReading(l, reading)
    \/ \E l \in Lathes : start_new_job(l, "J1", "A", "Turning", 1, 0)
    \/ \E l \in Lathes, i \in 1..MaxJobs, wear \in ToolWears :
           UpdateJob(l, i, "Completed", wear, MaxTime)
    \/ \E num_lathes \in Lathes :
           \E dampings \in [1..num_lathes -> Dampings] :
               GetAllLathes(num_lathes, dampings)
    \/ \E l \in Lathes, damping \in Dampings : GetLatheDetails(l, damping)
    \/ Respond

SpecSummary == Init /\ [][NextSummary]_vars

(***************************************************************************)
(* SpecConcurrent: details requests served while the machines record       *)
(* readings: a reading may be inserted between the reads of the handler.   *)
(***************************************************************************)
\* a reading of DetailFields: payload, dated timestamp, recorded during job_id
Dated(payload, timestamp, job_id) ==
    [k \in DetailFields |->
        CASE k = "timestamp" -> Num(timestamp)
          [] k = "JobID" -> job_id
          [] OTHER -> payload[k]]

\* an ideal reading dated 0, a slow and a failing one dated MaxTime
DatedReadings ==
    {Dated(IdealReading, 0, "J1"),
     Dated(SlowReading, MaxTime, "J2"),
     Dated(FailingReading, MaxTime, "J2")}

NextConcurrent ==
    \/ \E l \in Lathes, reading \in DatedReadings : IngestReading(l, reading)
    \/ \E l \in Lathes : GetLatheDetailsFetch(l)
    \/ \E damping \in Dampings : GetLatheDetailsReply(damping)
    \/ Respond

SpecConcurrent == Init /\ [][NextConcurrent]_vars

(***************************************************************************)
(* SpecFrontend: the script runs of one browser session.  A run is         *)
(* triggered by a click on a button of the page, by a reload (no click),   *)
(* or by st.rerun(), after which the page holds no button.                 *)
(***************************************************************************)
\* one run of the script; n is the number of entries GET /lathes returns (0
\* also for a failed request), lathe_details whether GET /lathes/{id}
\* succeeds
main(click, n, lathe_details) ==
    /\ click \in page.buttons \cup {NoButton}
    /\ LET view == InitializeSession(session_state).view
           run == RunMain(session_state, click, LatheList(n), lathe_details)
       IN  /\ session_state' = run.session
           /\ page' = [shown |-> run.shown,
                       buttons |-> run.buttons,
                       click |-> click,
                       lathes |-> IF view = "dashboard" THEN LatheList(n) ELSE <<>>,
                       lathe_details |-> view = "lathe_details" /\ lathe_details]
    /\ UNCHANGED backend

NextFrontend ==
    \E click \in {NoButton, BackButton, BackToDashboardButton}
                  \cup {ViewDetailsButton(k) : k \in 1..MaxListed},
       n \in 0..MaxListed, lathe_details \in BOOLEAN :
        main(click, n, lathe_details)

SpecFrontend == Init /\ [][NextFrontend]_vars

(***************************************************************************)
(* SpecProduct: get_lathe_product_analysis applied to a job collection and *)
(* the readings of its jobs.                                               *)
(***************************************************************************)
\* job records: two JobIDs, shared between materials and statuses; tool wear
\* at and above the threshold; one record without a Material
ProductJobs ==
    {[JobID |-> "J1", Material |-> "A", Status |-> "Completed", FinalToolWear |-> 81],
     [JobID |-> "J1", Material |-> "A", Status |-> "Completed", FinalToolWear |-> 80],
     [JobID |-> "J2", Material |-> "A", Status |-> "Completed", FinalToolWear |-> 81],
     [JobID |-> "J2", Material |-> "B", Status |-> "Completed", FinalToolWear |-> 80],
     [JobID |-> "J1", Material |-> "B", Status |-> "Completed", FinalToolWear |-> 81],
     [JobID |-> "J1", Material |-> "B", Status |-> "Running", FinalToolWear |-> 81],
     [JobID |-> "J2", Material |-> "A", Status |-> "Failed", FinalToolWear |-> 81],
     [JobID |-> "J2", Status |-> "Completed", FinalToolWear |-> 81]}

ProductJobIds == {"J1", "J2"}

\* the readings a job can have recorded
JobBatches ==
    {<<>>, <<IdealReading>>, <<FailingReading>>, <<IdealReading, FailingReading>>}

\* a batch whose readings carry the JobID
WithJobID(batch, job_id) ==
    [i \in 1..Len(batch) |->
        [k \in DOMAIN batch[i] \cup {"JobID"} |->
            IF k = "JobID" THEN job_id ELSE batch[i][k]]]

InitProduct ==
    /\ collections = {sensory_col(1), job_col(1)}
    /\ \E js \in UNION {[1..n -> ProductJobs] : n \in 0..MaxProductJobs} :
           jobs = [l \in Lathes |-> IF l = 1 THEN js ELSE <<>>]
    /\ \E batch \in [ProductJobIds -> JobBatches] :
           sensory = [l \in Lathes |->
                         IF l = 1
                         THEN WithJobID(batch["J1"], "J1") \o WithJobID(batch["J2"], "J2")
                         ELSE <<>>]
    /\ call = NoCall
    /\ result = NoResult
    /\ session_state = NoSession
    /\ page = NoPage

NextProduct == GetLatheProductAnalysis(1) \/ Respond

SpecProduct == InitProduct /\ [][NextProduct]_vars

(***************************************************************************)
(* SpecJobs: product-analysis requests against a database changed by       *)
(* start-job requests, job completions and reading ingestion.              *)
(***************************************************************************)
JobMaterials == {"A", "B"}

\* tool wear reported at the end of a job: at the threshold of the failure
\* rate and above it
FinalToolWears == {80, 95}

\* the reading recorded while job J1 runs
JobReading == WithJobID(<<IdealReading>>, "J1")[1]

NextJobs ==
    \/ \E l \in Lathes, material \in JobMaterials :
           start_new_job(l, "J1", material, "Turning", 1, 0)
    \/ \E l \in Lathes, i \in 1..MaxJobs, wear \in FinalToolWears :
           UpdateJob(l, i, "Completed", wear, MaxTime)
    \/ \E l \in Lathes : IngestReading(l, JobReading)
    \/ \E l \in Lathes : GetLatheProductAnalysis(l)
    \/ Respond

SpecJobs == Init /\ [][NextJobs]_vars

(***************************************************************************)
(* SpecQueries: every read request, with parameter values inside, at the   *)
(* ends of and outside the declared ranges, served against dated readings  *)
(* that arrive in any order.                                               *)
(***************************************************************************)
\* clock readings, in hours
HistoryTimes == 0..(MaxTime + 2)

\* values of datetime.now() at a history request
Nows == {t \in HistoryTimes : t >= 2}

\* ideal readings recorded at any time
HistoryReadings ==
    {[k \in Metrics \cup {"timestamp"} |->
         IF k = "timestamp" THEN Num(t) ELSE IdealReading[k]] : t \in HistoryTimes}

HoursValues == {0, 1, 2, max_history_hours, max_history_hours + 1}

LimitValues == {0, 1, 2, MaxLimit, MaxLimit + 1}

NumLathesValues == {0, 1, 2, MaxNumLathes, MaxNumLathes + 1}

NextQueries ==
    \/ \E l \in Lathes, reading \in HistoryReadings : IngestReading(l, reading)
    \/ \E l \in Lathes, hours \in HoursValues, limit \in LimitValues, now \in Nows :
           GetLatheHistory(l, hours, limit, now)
    \/ \E l \in Lathes, limit \in LimitValues : GetLatheSensorData(l, limit)
    \/ \E num_lathes \in NumLathesValues, damping \in Dampings :
           GetAllLathes(num_lathes, [i \in 1..num_lathes |-> damping])
    \/ \E l \in Lathes, damping \in Dampings : GetLatheDetails(l, damping)
    \/ \E l \in Lathes : GetLatheProductAnalysis(l)
    \/ Respond

SpecQueries == Init /\ [][NextQueries]_vars

(***************************************************************************)
(* Properties of calculate_health_score and get_lathe_status (SpecScore).  *)
(***************************************************************************)
\* number and sum of the numeric values a batch holds for a field
RECURSIVE ObsCount(_, _)
ObsCount(b, m) ==
    IF b = <<>> THEN 0
    ELSE (IF m \in DOMAIN Head(b) /\ Head(b)[m].t = "num" THEN 1 ELSE 0)
         + ObsCount(Tail(b), m)

RECURSIVE ObsSum(_, _)
ObsSum(b, m) ==
    IF b = <<>> THEN 0
    ELSE (IF m \in DOMAIN Head(b) /\ Head(b)[m].t = "num" THEN Head(b)[m].v ELSE 0)
         + ObsSum(Tail(b), m)

AllDicts(b) == \A i \in 1..Len(b) : "t" \notin DOMAIN b[i]

AllObserved(b) == \A m \in Metrics : ObsCount(b, m) > 0

\* 120 * n * (100 * weight * goodness) of a field with n values of sum s
Term120(m, n, s) ==
    CASE n = 0             -> 0
      [] m = "Temperature" -> 24 * (125 * n - s)
      [] m = "Vibration"   -> 1800 * n - 180 * s
      [] m = "RPM"         -> s
      [] m = "Power"       -> 2400 * n - 160 * s
      [] m = "ToolWear"    -> 2400 * n - 24 * s

\* 100 * (0.20*(1-(T-25)/100) + 0.15*(1-V/10) + 0.25*(R/3000) + 0.20*(1-P/15)
\*        + 0.20*(1-W/100)) over the field means, an unobserved field's term
\* being 0, clamped to [0, 100]
ExpectedScore(b) ==
    LET N(m) == IF ObsCount(b, m) = 0 THEN 1 ELSE ObsCount(b, m)
        D == N("Temperature") * N("Vibration") * N("RPM") * N("Power") * N("ToolWear")
        Part(m) == Term120(m, ObsCount(b, m), ObsSum(b, m)) * (D \div N(m))
        total == Part("Temperature") + Part("Vibration") + Part("RPM")
                 + Part("Power") + Part("ToolWear")
    IN  IF total < 0 THEN R(0)
        ELSE IF total > 100 * 120 * D THEN R(100)
        ELSE Rat(total, 120 * D)

IsIdealBatch(b, S) ==
    \A m \in Metrics :
        IF m \in S
        THEN ObsCount(b, m) > 0 /\ ObsSum(b, m) = IdealValue(m) * ObsCount(b, m)
        ELSE ObsCount(b, m) = 0

\* C1: for every batch of readings (any mix of present, missing, non-numeric
\* and out-of-range values) calculate_health_score returns h, 0 <= h <= 100.
InvC1 ==
    result.kind = "score" =>
        /\ ~result.out.raised
        /\ 0 <= result.out.value.n
        /\ result.out.value.n <= 100 * result.out.value.d

\* a batch holding an RPM of 6000 whose unclamped score exceeds 100
WitC1 ==
    /\ result.kind = "score"
    /\ \E i \in 1..Len(call.lathe_data) :
           /\ "RPM" \in DOMAIN call.lathe_data[i]
           /\ call.lathe_data[i]["RPM"] = Num(6000)
    /\ result.out.value = R(100)

\* C3: get_lathe_status returns Operational iff score >= 80, Warning iff
\* 60 <= score < 80, Failure iff score < 60, and nothing else (80 ->
\* Operational, 79.9 -> Warning, 60 -> Warning, 59.9 -> Failure).
InvC3 ==
    result.kind = "status" =>
        LET x == call.health_score
            st == result.out.value
        IN  /\ ~result.out.raised
            /\ st \in {"Operational", "Warning", "Failure"}
            /\ (st = "Operational") <=> (x.n >= 80 * x.d)
            /\ (st = "Warning") <=> (x.n >= 60 * x.d /\ x.n < 80 * x.d)
            /\ (st = "Failure") <=> (x.n < 60 * x.d)
            /\ (x = R(80) => st = "Operational")
            /\ (x = Rat(799, 10) => st = "Warning")
            /\ (x = R(60) => st = "Warning")
            /\ (x = Rat(599, 10) => st = "Failure")

\* the score 60 classified as Warning
WitC3 ==
    /\ result.kind = "status"
    /\ call.health_score = R(60)
    /\ result.out.value = "Warning"

\* C5: calculate_health_score returns exactly 0 and raises nothing for an
\* empty batch, for a batch without any observed numeric value, and when the
\* scoring computation faults.
InvC5 ==
    (/\ result.kind = "score"
     /\ \/ call.lathe_data = <<>>
        \/ \A m \in Metrics : ObsCount(call.lathe_data, m) = 0
        \/ ~AllDicts(call.lathe_data))
    => result.out = Return(R(0))

\* a batch with an observed value and an element the extraction faults on
WitC5 ==
    /\ result.kind = "score"
    /\ ~AllDicts(call.lathe_data)
    /\ \E m \in Metrics : ObsCount(call.lathe_data, m) > 0
    /\ result.out = Return(R(0))

\* C7: when every tracked field has an observed value the score is the
\* clamped weighted formula over the field means; the ideal means give 100.
InvC7 ==
    (/\ result.kind = "score"
     /\ AllDicts(call.lathe_data)
     /\ AllObserved(call.lathe_data))
    => /\ result.out = Return(ExpectedScore(call.lathe_data))
       /\ IsIdealBatch(call.lathe_data, Metrics) => result.out.value = R(100)

\* every field observed, and a score strictly between 0 and 100
WitC7 ==
    /\ result.kind = "score"
    /\ AllDicts(call.lathe_data)
    /\ AllObserved(call.lathe_data)
    /\ result.out.value.n > 0
    /\ result.out.value.n < 100 * result.out.value.d

\* C8: a tracked field without observed values contributes 0 at its full
\* weight: only Temperature at mean 25 scores 20, all ideal but RPM scores 75.
InvC8 ==
    (/\ result.kind = "score"
     /\ call.lathe_data # <<>>
     /\ AllDicts(call.lathe_data)
     /\ ~AllObserved(call.lathe_data))
    => /\ result.out = Return(ExpectedScore(call.lathe_data))
       /\ IsIdealBatch(call.lathe_data, {"Temperature"}) => result.out.value = R(20)
       /\ IsIdealBatch(call.lathe_data, Metrics \ {"RPM"}) => result.out.value = R(75)

\* every field but RPM observed at its ideal value, scored 75
WitC8 ==
    /\ result.kind = "score"
    /\ AllDicts(call.lathe_data)
    /\ IsIdealBatch(call.lathe_data, Metrics \ {"RPM"})
    /\ result.out.value = R(75)

\* C9 (as claimed): every observed field's sub-score lies between 0 and 1.
InvC9 ==
    (/\ result.kind = "score"
     /\ AllDicts(call.lathe_data))
    => LET sc == Scores(ExtractMetrics(call.lathe_data))
           InUnit(x) == 0 <= x.n /\ x.n <= x.d
       IN  /\ ObsCount(call.lathe_data, "Temperature") > 0 => InUnit(sc.temp)
           /\ ObsCount(call.lathe_data, "Vibration") > 0 => InUnit(sc.vib)
           /\ ObsCount(call.lathe_data, "RPM") > 0 => InUnit(sc.rpm)
           /\ ObsCount(call.lathe_data, "Power") > 0 => InUnit(sc.power)
           /\ ObsCount(call.lathe_data, "ToolWear") > 0 => InUnit(sc.wear)

(***************************************************************************)
(* Properties of calculate_uptime (SpecUptime).                            *)
(***************************************************************************)
\* the Completed jobs of the lathe that hold both a StartTime and an EndTime
TimedCompletedJobs(l) ==
    {i \in 1..Len(jobs[l]) :
        /\ jobs[l][i]["Status"] = "Completed"
        /\ {"StartTime", "EndTime"} \subseteq DOMAIN jobs[l][i]}

\* C2: for every set of job records (EndTime equal to or before StartTime,
\* missing timestamps, every damping factor) calculate_uptime returns u,
\* 0 <= u <= 100.
InvC2 ==
    result.kind = "uptime" =>
        /\ ~result.out.raised
        /\ 0 <= result.out.value.n
        /\ result.out.value.n <= 100 * result.out.value.d

\* a Completed job that ends before it starts, and an uptime returned
WitC2 ==
    /\ result.kind = "uptime"
    /\ \E i \in TimedCompletedJobs(call.lathe_id) :
           /\ jobs[call.lathe_id][i]["EndTime"].t = "num"
           /\ jobs[call.lathe_id][i]["EndTime"].v < jobs[call.lathe_id][i]["StartTime"].v
    /\ ~result.out.raised

\* C6: without a Completed job that has both StartTime and EndTime (no job
\* collection, no Completed job, or none with both timestamps)
\* calculate_uptime returns exactly 100, whatever the damping factor.
InvC6 ==
    (/\ result.kind = "uptime"
     /\ TimedCompletedJobs(call.lathe_id) = {})
    => result.out = Return(R(100))

\* Completed jobs exist, none has both timestamps, and 100 is returned
WitC6 ==
    /\ result.kind = "uptime"
    /\ TimedCompletedJobs(call.lathe_id) = {}
    /\ \E i \in 1..Len(jobs[call.lathe_id]) :
           jobs[call.lathe_id][i]["Status"] = "Completed"
    /\ result.out = Return(R(100))

(***************************************************************************)
(* Properties of the request handlers (Spec, SpecReadings, SpecFleet).     *)
(* While a response is held in result the database is the one the request  *)
(* was served from.                                                        *)
(***************************************************************************)
\* the job records of a lathe that are Completed with FinalToolWear > 90
FailedJobs(l) ==
    {i \in 1..Len(jobs[l]) :
        jobs[l][i]["Status"] = "Completed" /\ jobs[l][i]["FinalToolWear"] > 90}

Tiers == {"Operational", "Warning", "Failure"}

\* C4 (as claimed): the failure_count of every fleet-summary entry and of
\* every details response equals the number of the machine's job records
\* with Status = Completed and FinalToolWear > 90.
InvC4 ==
    /\ result.kind = "fleet" =>
           \A l \in DOMAIN result.resp.body :
               result.resp.body[l].failure_count = Cardinality(FailedJobs(l))
    /\ (result.kind = "details" /\ result.resp.code = 200) =>
           result.resp.body.failure_count = Cardinality(FailedJobs(call.lathe_id))

\* C4 (amended): the equality holds in a details response and in a fleet
\* entry of a machine with both collections and a reading (status
\* Operational, Warning or Failure); an Offline or No Data entry reports 0.
InvC4Amended ==
    /\ result.kind = "fleet" =>
           \A l \in DOMAIN result.resp.body :
               LET entry == result.resp.body[l]
               IN  /\ entry.status \in Tiers =>
                          entry.failure_count = Cardinality(FailedJobs(l))
                   /\ entry.status \notin Tiers => entry.failure_count = 0
                   /\ entry.status \in Tiers <=>
                          /\ {sensory_col(l), job_col(l)} \subseteq collections
                          /\ sensory[l] # <<>>
    /\ (result.kind = "details" /\ result.resp.code = 200) =>
           result.resp.body.failure_count = Cardinality(FailedJobs(call.lathe_id))

\* a fleet entry counting one failure for a machine that also holds a job
\* at or above the threshold that must not count
WitC4 ==
    /\ result.kind = "fleet"
    /\ \E l \in DOMAIN result.resp.body :
           /\ result.resp.body[l].failure_count = 1
           /\ \E i \in 1..Len(jobs[l]) :
                  /\ i \notin FailedJobs(l)
                  /\ jobs[l][i]["FinalToolWear"] >= 90

\* C10 (as claimed): a reading whose tracked field holds a non-numeric value
\* counts as not observed: the sensor-data request succeeds and each field's
\* avg is the mean of the numeric values (0 without any), and the details
\* health score is the score of the numeric values.
InvC10 ==
    /\ (result.kind = "sensor_data" /\ sensory[call.lathe_id] # <<>>) =>
           /\ result.resp.code = 200
           /\ LET batch == Latest(sensory[call.lathe_id], call.limit)
              IN  \A field \in Metrics :
                      result.resp.body.stats[field].avg =
                          IF ObsCount(batch, field) = 0 THEN R(0)
                          ELSE Rat(ObsSum(batch, field), ObsCount(batch, field))
    /\ (result.kind = "details" /\ sensory[call.lathe_id] # <<>>) =>
           /\ result.resp.code = 200
           /\ result.resp.body.health_score =
                  Round1(ExpectedScore(Latest(sensory[call.lathe_id], RecentLimit)))

\* the machine has no reading to fetch: its SensoryData collection is absent
\* or holds no document
NoReadings(l) == ~collection_exists(sensory_col(l)) \/ sensory[l] = <<>>

\* C11 (as claimed): the fleet-summary entry of a machine whose reading fetch
\* returns no record, or whose data source is absent, carries health_score 0
\* and uptime 100.
InvC11 ==
    result.kind = "fleet" =>
        \A l \in DOMAIN result.resp.body :
            NoReadings(l) =>
                /\ result.resp.body[l].health_score = R(0)
                /\ result.resp.body[l].uptime = R(100)

\* C13: in the fleet summary a machine with zero readings is reported with
\* health_score 0 and the status No Data, or Offline when a collection is
\* missing, never Failure; Failure is reported only for a machine with at
\* least one reading whose computed score is below 60.
InvC13 ==
    (result.kind = "fleet" /\ result.resp.code = 200) =>
        \A l \in DOMAIN result.resp.body :
            LET entry == result.resp.body[l]
            IN  /\ sensory[l] = <<>> =>
                       /\ entry.health_score = R(0)
                       /\ entry.status =
                              IF {sensory_col(l), job_col(l)} \subseteq collections
                              THEN "No Data" ELSE "Offline"
                /\ entry.status = "Failure" =>
                       /\ sensory[l] # <<>>
                       /\ RLt(ExpectedScore(sensory[l]), R(60))

\* one summary holding a No Data entry and a Failure entry, both with
\* health_score 0
WitC13 ==
    /\ result.kind = "fleet"
    /\ result.resp.code = 200
    /\ \E l \in DOMAIN result.resp.body :
           /\ result.resp.body[l].status = "No Data"
           /\ result.resp.body[l].health_score = R(0)
    /\ \E l \in DOMAIN result.resp.body :
           /\ result.resp.body[l].status = "Failure"
           /\ result.resp.body[l].health_score = R(0)

(***************************************************************************)
(* Properties of the read requests on absent data, of the time window and  *)
(* of the parameter ranges (SpecQueries).                                  *)
(***************************************************************************)
\* the readings of a lathe dated within [now - hours, now]
ReadingsInWindow(l, hours, now) ==
    {i \in 1..Len(sensory[l]) :
        /\ now - hours <= sensory[l][i]["timestamp"].v
        /\ sensory[l][i]["timestamp"].v <= now}

\* C12 (as claimed): for a machine whose collection exists an empty batch is
\* never answered with an error: a details, sensor-data or history request
\* that finds no reading and a product-analysis request that finds no
\* Completed job return a result built from the defaults (0 health, 100
\* uptime, empty list, empty groups).
InvC12 ==
    /\ (/\ result.kind = "details"
         /\ collection_exists(sensory_col(call.lathe_id))
         /\ sensory[call.lathe_id] = <<>>)
        => /\ result.resp.code = 200
           /\ result.resp.body.health_score = R(0)
           /\ result.resp.body.uptime = R(100)
    /\ (/\ result.kind = "sensor_data"
         /\ call.limit \in 1..MaxLimit
         /\ collection_exists(sensory_col(call.lathe_id))
         /\ sensory[call.lathe_id] = <<>>)
        => /\ result.resp.code = 200
           /\ result.resp.body.sensor_data = <<>>
    /\ (/\ result.kind = "history"
         /\ call.hours \in 1..max_history_hours
         /\ call.limit \in 1..MaxLimit
         /\ collection_exists(sensory_col(call.lathe_id))
         /\ ReadingsInWindow(call.lathe_id, call.hours, call.now) = {})
        => /\ result.resp.code = 200
           /\ result.resp.body = <<>>
    /\ (/\ result.kind = "product_analysis"
         /\ collection_exists(job_col(call.lathe_id))
         /\ \A i \in 1..Len(jobs[call.lathe_id]) :
                jobs[call.lathe_id][i]["Status"] # "Completed")
        => /\ result.resp.code = 200
           /\ DOMAIN result.resp.body.product_types = {}
           /\ DOMAIN result.resp.body.product_quality = {}
           /\ DOMAIN result.resp.body.params_by_type = {}

\* the timestamps of a list of readings do not decrease (increase)
Ascending(docs) ==
    \A i \in 1..Len(docs) : \A j \in i..Len(docs) :
        docs[i]["timestamp"].v <= docs[j]["timestamp"].v

Descending(docs) ==
    \A i \in 1..Len(docs) : \A j \in i..Len(docs) :
        docs[i]["timestamp"].v >= docs[j]["timestamp"].v

\* C19: a successful history request returns at most limit readings, each
\* with now - hours <= timestamp <= now (both ends included), in ascending
\* timestamp order; a sensor-data request returns at most limit readings in
\* descending timestamp order.
InvC19 ==
    /\ (result.kind = "history" /\ result.resp.code = 200) =>
           LET body == result.resp.body
           IN  /\ Len(body) <= call.limit
               /\ \A i \in 1..Len(body) :
                      /\ call.now - call.hours <= body[i]["timestamp"].v
                      /\ body[i]["timestamp"].v <= call.now
               /\ Ascending(body)
    /\ (result.kind = "sensor_data" /\ result.resp.code = 200) =>
           /\ Len(result.resp.body.sensor_data) <= call.limit
           /\ Descending(result.resp.body.sensor_data)

\* a history response with two readings, dated at the two ends of the
\* window, that were recorded in the opposite order
WitC19 ==
    /\ result.kind = "history"
    /\ result.resp.code = 200
    /\ Len(result.resp.body) = 2
    /\ result.resp.body[1]["timestamp"].v = call.now - call.hours
    /\ result.resp.body[2]["timestamp"].v = call.now
    /\ sensory[call.lathe_id][1]["timestamp"].v = call.now

\* a 4xx response without records
Rejected(resp) == resp.code \in 400..499 /\ "body" \notin DOMAIN resp

\* C20: a history request with hours outside [1, max_history_hours] or
\* limit outside [1, 5000], a sensor-data request with limit outside
\* [1, 5000] and a fleet request with num_lathes outside [1, 50] are
\* rejected with a client error: the value is not clamped into the range and
\* no record is returned.
InvC20 ==
    /\ (/\ result.kind = "history"
         /\ \/ call.hours \notin 1..max_history_hours
            \/ call.limit \notin 1..MaxLimit)
        => Rejected(result.resp)
    /\ (result.kind = "sensor_data" /\ call.limit \notin 1..MaxLimit)
        => Rejected(result.resp)
    /\ (result.kind = "fleet" /\ call.num_lathes \notin 1..MaxNumLathes)
        => Rejected(result.resp)

\* a history request for one hour more than max_history_hours, rejected
\* although the machine holds a reading dated now
WitC20 ==
    /\ result.kind = "history"
    /\ call.hours = max_history_hours + 1
    /\ call.limit = 1
    /\ \E i \in 1..Len(sensory[call.lathe_id]) :
           sensory[call.lathe_id][i]["timestamp"].v = call.now
    /\ result.resp = HttpError(422)

(***************************************************************************)
(* Properties of get_lathe_product_analysis (SpecProduct, SpecJobs).       *)
(***************************************************************************)
\* the material a job record is grouped under
GroupOf(job) == IF "Material" \in DOMAIN job THEN job["Material"] ELSE "Unknown"

\* the Completed job records of a lathe, and those of one group
CompletedSet(l) == {i \in 1..Len(jobs[l]) : jobs[l][i]["Status"] = "Completed"}

CompletedOf(l, material) == {i \in CompletedSet(l) : GroupOf(jobs[l][i]) = material}

\* the sum of the counts of the groups in S
RECURSIVE SumCounts(_, _)
SumCounts(counts, S) ==
    IF S = {} THEN 0
    ELSE LET m == CHOOSE x \in S : TRUE
         IN  counts[m] + SumCounts(counts, S \ {m})

\* C14: product_types partitions the Completed jobs by Material: each one is
\* counted in exactly one group (Unknown without a Material), Running and
\* Failed jobs in none, the counts add up to the number of Completed jobs;
\* materials A, A, B give {A: 2, B: 1}.
InvC14 ==
    (result.kind = "product_analysis" /\ result.resp.code = 200) =>
        LET l == call.lathe_id
            product_types == result.resp.body.product_types
        IN  /\ DOMAIN product_types = {GroupOf(jobs[l][i]) : i \in CompletedSet(l)}
            /\ \A material \in DOMAIN product_types :
                   product_types[material] = Cardinality(CompletedOf(l, material))
            /\ SumCounts(product_types, DOMAIN product_types)
                   = Cardinality(CompletedSet(l))
            /\ (/\ Cardinality(CompletedSet(l)) = 3
                 /\ Cardinality(CompletedOf(l, "A")) = 2
                 /\ Cardinality(CompletedOf(l, "B")) = 1)
                => product_types = [material \in {"A", "B"} |->
                                       IF material = "A" THEN 2 ELSE 1]

\* a response counting one job in the group Unknown and one in A, for a
\* collection that also holds a job that is not Completed
WitC14 ==
    /\ result.kind = "product_analysis"
    /\ result.resp.code = 200
    /\ result.resp.body.product_types =
           [material \in {"A", "Unknown"} |-> 1]
    /\ Len(jobs[call.lathe_id]) = 3

\* C15 (as claimed): for every material in product_quality, failure_rate is
\* 100 * (the material's Completed jobs with FinalToolWear > 80) / (the
\* material's Completed jobs) rounded to one decimal, over exactly the jobs
\* product_types counts for the material, whatever the job collection
\* (a JobID shared with a job of another status or material included).
InvC15 ==
    (result.kind = "product_analysis" /\ result.resp.code = 200) =>
        LET l == call.lathe_id
        IN  \A material \in DOMAIN result.resp.body.product_quality :
                LET counted == CompletedOf(l, material)
                    worn == {i \in counted : jobs[l][i]["FinalToolWear"] > 80}
                IN  /\ Cardinality(counted)
                           = result.resp.body.product_types[material]
                    /\ result.resp.body.product_quality[material].failure_rate
                           = Round1(Rat(100 * Cardinality(worn), Cardinality(counted)))

\* C16 (as claimed): after any sequence of start-job requests, job
\* completions and reading ingestions, every group of a product-analysis
\* response has 0 <= failure_rate <= 100 and 0 <= avg_health_score <= 100.
InvC16 ==
    (result.kind = "product_analysis" /\ result.resp.code = 200) =>
        \A material \in DOMAIN result.resp.body.product_quality :
            LET quality == result.resp.body.product_quality[material]
            IN  /\ RLe(R(0), quality.failure_rate)
                /\ RLe(quality.failure_rate, R(100))
                /\ RLe(R(0), quality.avg_health_score)
                /\ RLe(quality.avg_health_score, R(100))

\* the readings of a lathe that carry the JobID
ReadingsOfJob(l, job_id) ==
    LET Carries(d) == "JobID" \in DOMAIN d /\ d["JobID"] = job_id
    IN  SelectSeq(sensory[l], Carries)

\* the Completed jobs of a group that have a reading of their own
ScoredJobs(l, material) ==
    {i \in CompletedOf(l, material) : ReadingsOfJob(l, jobs[l][i]["JobID"]) # <<>>}

\* the sum over the job records in S of the score of the job's own readings
RECURSIVE ScoreTotal(_, _)
ScoreTotal(l, S) ==
    IF S = {} THEN R(0)
    ELSE LET i == CHOOSE x \in S : TRUE
         IN  RAdd(ExpectedScore(ReadingsOfJob(l, jobs[l][i]["JobID"])),
                  ScoreTotal(l, S \ {i}))

\* C17: a material's avg_health_score is the mean (rounded to one decimal)
\* of the scores of each job's own readings, selected by JobID, over the
\* jobs of the material that have a reading; a job without readings
\* contributes no term.
InvC17 ==
    (result.kind = "product_analysis" /\ result.resp.code = 200) =>
        LET l == call.lathe_id
        IN  \A material \in DOMAIN result.resp.body.product_quality :
                /\ ScoredJobs(l, material) # {}
                /\ result.resp.body.product_quality[material].avg_health_score
                       = Round1(RDiv(ScoreTotal(l, ScoredJobs(l, material)),
                                     R(Cardinality(ScoredJobs(l, material)))))

\* a group with a job that has no reading and a job whose two readings
\* score 60: the average is 60
WitC17 ==
    /\ result.kind = "product_analysis"
    /\ result.resp.code = 200
    /\ \E material \in DOMAIN result.resp.body.product_quality :
           /\ CompletedOf(call.lathe_id, material) # ScoredJobs(call.lathe_id, material)
           /\ Cardinality(ScoredJobs(call.lathe_id, material)) = 1
           /\ result.resp.body.product_quality[material].avg_health_score = R(60)

\* the materials of the Completed jobs none of which has a reading
UnreadMaterials(l) ==
    {material \in {GroupOf(jobs[l][i]) : i \in CompletedSet(l)} :
        ScoredJobs(l, material) = {}}

\* C18: a material group none of whose jobs has a reading has no entry in
\* product_quality and none in params_by_type, and appears with its job
\* count in product_types; product_quality and params_by_type have the same
\* materials, all of them materials of product_types.
InvC18 ==
    (result.kind = "product_analysis" /\ result.resp.code = 200) =>
        LET l == call.lathe_id
            body == result.resp.body
        IN  /\ \A material \in UnreadMaterials(l) :
                   /\ material \notin DOMAIN body.product_quality
                   /\ material \notin DOMAIN body.params_by_type
                   /\ material \in DOMAIN body.product_types
                   /\ body.product_types[material] = Cardinality(CompletedOf(l, material))
            /\ DOMAIN body.product_quality = DOMAIN body.params_by_type
            /\ DOMAIN body.product_quality \subseteq DOMAIN body.product_types

\* a response with a group that is analysed and a group without readings
\* that is only counted
WitC18 ==
    /\ result.kind = "product_analysis"
    /\ result.resp.code = 200
    /\ DOMAIN result.resp.body.product_quality # {}
    /\ \E material \in UnreadMaterials(call.lathe_id) :
           /\ material # "Unknown"
           /\ result.resp.body.product_types[material] = 1

(***************************************************************************)
(* Properties of the API as a whole (SpecApi, Spec).                       *)
(***************************************************************************)
\* the machine has no data source: neither of its collections exists
NoDataSource(l) == ~collection_exists(sensory_col(l)) /\ ~collection_exists(job_col(l))

PerMachineKinds == {"details", "history", "sensor_data", "product_analysis", "start_job"}

\* C21 (as claimed): every per-machine operation (details, history,
\* sensor-data, product-analysis, start-job) invoked with a machine id that
\* has no data source when the request arrives answers with a client error
\* (4xx).
ActC21 ==
    [][(/\ result = NoResult
        /\ result'.kind \in PerMachineKinds
        /\ NoDataSource(call'.lathe_id)
        /\ result'.kind = "start_job" =>
               ~InvalidJobParameters(call'.job_id, call'.material, call'.job_type,
                                     call'.tool_no))
       => result'.resp.code \in 400..499]_vars

\* the job records of every lathe are kept, in place and unchanged
JobsKept ==
    \A l \in Lathes :
        /\ Len(jobs[l]) <= Len(jobs'[l])
        /\ SubSeq(jobs'[l], 1, Len(jobs[l])) = jobs[l]

\* C22: a successful start-job request adds exactly one job record to the
\* machine, with Status = Running, no EndTime and FinalToolWear = 0; no
\* request of the API deletes a job record or changes a field of one, so
\* the job records only grow along any sequence of requests.
ActC22 ==
    [][(result = NoResult /\ result' # NoResult) =>
          /\ JobsKept
          /\ (result'.kind = "start_job" /\ result'.resp.code = 200) =>
                 LET l == call'.lathe_id
                     added == jobs'[l][Len(jobs'[l])]
                 IN  /\ Len(jobs'[l]) = Len(jobs[l]) + 1
                     /\ \A k \in Lathes \ {l} : jobs'[k] = jobs[k]
                     /\ added["JobID"] = call'.job_id
                     /\ added["Status"] = "Running"
                     /\ "EndTime" \notin DOMAIN added
                     /\ added["FinalToolWear"] = 0
          /\ result'.kind # "start_job" => jobs' = jobs]_vars

\* a start-job request answered 200 for a machine whose earlier job has
\* been completed: the completed record is still the first one
WitC22 ==
    /\ result.kind = "start_job"
    /\ result.resp.code = 200
    /\ Len(jobs[call.lathe_id]) = 2
    /\ jobs[call.lathe_id][1]["Status"] = "Completed"
    /\ jobs[call.lathe_id][2]["Status"] = "Running"

\* C23 (as claimed): after any sequence of start-job requests no two job
\* records of one machine have the same JobID.
InvC23 ==
    \A l \in Lathes :
        \A i \in 1..Len(jobs[l]) : \A j \in 1..Len(jobs[l]) :
            i # j => jobs[l][i]["JobID"] # jobs[l][j]["JobID"]

MetricKeys == {"health_score", "status", "failure_count", "uptime"}

\* C24 (as claimed): the derived metrics are a function of the records
\* alone: evaluated again over the same readings and jobs, whatever the
\* random generator returns, health_score, status, failure_count and uptime
\* come out as in the response.
InvC24 ==
    /\ (result.kind = "details" /\ result.resp.code = 200) =>
           \A damping \in Dampings :
               Projection(get_lathe_details(call.lathe_id, damping).body, MetricKeys)
                   = Projection(result.resp.body, MetricKeys)
    /\ (result.kind = "fleet" /\ result.resp.code = 200) =>
           \A l \in DOMAIN result.resp.body : \A damping \in Dampings :
               Projection(SummaryEntry(l, damping), MetricKeys)
                   = Projection(result.resp.body[l], MetricKeys)

(***************************************************************************)
(* Faults during a summary request (SpecFaults).                           *)
(***************************************************************************)
\* a summary response to a request during which faults could be raised
FleetUnderFaults ==
    /\ result.kind = "fleet"
    /\ result.resp.code = 200
    /\ "faults" \in DOMAIN call

\* exactly N entries, the i-th for lathe i
EntriesInOrder ==
    /\ DOMAIN result.resp.body = 1..call.num_lathes
    /\ \A i \in 1..call.num_lathes : result.resp.body[i].lathe_id = i

\* the entry of a lathe whose iteration raised no fault is the entry of a
\* request without faults
OthersUntouched ==
    \A i \in 1..call.num_lathes :
        ~FaultOccurs(i, call.faults[i]) =>
            result.resp.body[i] = SummaryEntry(i, call.dampings[i])

\* C25 (as claimed): a summary request for N lathes returns N entries, the
\* i-th for lathe i; a fault while processing one machine yields the entry
\* (0, 0, Error, 0) for that machine and leaves the other entries as they
\* are without the fault.
InvC25 ==
    FleetUnderFaults =>
        /\ EntriesInOrder
        /\ OthersUntouched
        /\ \A i \in 1..call.num_lathes :
               FaultOccurs(i, call.faults[i]) =>
                   result.resp.body[i] = SentinelEntry(i, "Error")

\* C25 (amended): a summary request for N lathes returns N entries, the
\* i-th for lathe i; a fault raised by the fetch of the readings or by the
\* count of the failed jobs of one machine yields the entry (0, 0, Error, 0)
\* for that machine, a fault raised while the collections are listed yields
\* the entry (0, 0, Offline, 0), a fault raised inside the uptime
\* calculation yields uptime 100 and the other fields as without the fault;
\* the entries of the other machines are as they are without the fault.
InvC25Amended ==
    FleetUnderFaults =>
        /\ EntriesInOrder
        /\ OthersUntouched
        /\ \A i \in 1..call.num_lathes :
               LET fault == call.faults[i]
                   entry == result.resp.body[i]
                   unfaulted == SummaryEntry(i, call.dampings[i])
               IN  FaultOccurs(i, fault) =>
                       CASE fault \in {"find", "count_documents"} ->
                                entry = SentinelEntry(i, "Error")
                         [] fault = "list_collection_names" ->
                                entry = SentinelEntry(i, "Offline")
                         [] fault = "calculate_uptime" ->
                                /\ entry.uptime = R(100)
                                /\ entry.health_score = unfaulted.health_score
                                /\ entry.status = unfaulted.status
                                /\ entry.failure_count = unfaulted.failure_count

\* the fetch of the readings of lathe 1 raises, lathe 2 is scored
WitC25 ==
    /\ FleetUnderFaults
    /\ call.num_lathes = 2
    /\ call.faults[1] = "find" /\ FaultOccurs(1, "find")
    /\ call.faults[2] = NoFault
    /\ result.resp.body[1].status = "Error"
    /\ result.resp.body[2].status = "Failure"

(***************************************************************************)
(* Summary and details of one machine (SpecSummary).                       *)
(***************************************************************************)
\* the tier of a reported score
StatusAgrees(status, health_score) ==
    /\ status = "Operational" <=> RLe(R(80), health_score)
    /\ status = "Warning" <=> (RLe(R(60), health_score) /\ RLt(health_score, R(80)))
    /\ status = "Failure" <=> RLt(health_score, R(60))

\* C26 (as claimed): in every summary entry and details response whose
\* status is Operational, Warning or Failure, the status is the tier of the
\* reported, one-decimal health_score.
InvC26 ==
    /\ (result.kind = "details" /\ result.resp.code = 200) =>
           StatusAgrees(result.resp.body.status, result.resp.body.health_score)
    /\ (result.kind = "fleet" /\ result.resp.code = 200) =>
           \A i \in DOMAIN result.resp.body :
               result.resp.body[i].status \in Tiers =>
                   StatusAgrees(result.resp.body[i].status,
                                result.resp.body[i].health_score)

\* C27: for a machine with both collections and at least one reading, the
\* summary entry and the details response computed over the same database
\* state report the same health_score, status and failure_count.
InvC27 ==
    \A l \in Lathes : \A damping \in Dampings :
        LET entry == SummaryEntry(l, damping)
            details == get_lathe_details(l, damping)
            served(kind) == result.kind = kind /\ result.resp.code = 200
        IN  (/\ collection_exists(sensory_col(l))
             /\ collection_exists(job_col(l))
             /\ sensory[l] # <<>>) =>
                /\ (served("details") /\ call.lathe_id = l) =>
                       /\ entry.health_score = result.resp.body.health_score
                       /\ entry.status = result.resp.body.status
                       /\ entry.failure_count = result.resp.body.failure_count
                /\ (served("fleet") /\ l \in DOMAIN result.resp.body) =>
                       /\ details.code = 200
                       /\ details.body.health_score = result.resp.body[l].health_score
                       /\ details.body.status = result.resp.body[l].status
                       /\ details.body.failure_count = result.resp.body[l].failure_count

\* a details response for a machine with a slow and an ideal reading, one
\* failed job and one job still running
WitC27 ==
    /\ result.kind = "details"
    /\ result.resp.code = 200
    /\ Len(sensory[call.lathe_id]) = 2
    /\ Len(jobs[call.lathe_id]) = 2
    /\ result.resp.body.health_score = R(90)
    /\ result.resp.body.status = "Operational"
    /\ result.resp.body.failure_count = 1
    /\ SummaryEntry(call.lathe_id, Rat(5, 100)).failure_count = 1

(***************************************************************************)
(* Validation of start-job requests (SpecApi).                             *)
(***************************************************************************)
\* C28: a start-job request with an empty job_id, material or job_type, or
\* with tool_no < 1, is answered 400 and leaves the job records and the
\* collections as they are; a request with four valid parameters is
\* answered 200 and inserts a record, creating the job collection of a
\* machine that has none.
ActC28 ==
    [][(result = NoResult /\ result'.kind = "start_job") =>
          LET l == call'.lathe_id
              misuse == \/ call'.job_id = ""
                        \/ call'.material = ""
                        \/ call'.job_type = ""
                        \/ call'.tool_no < 1
          IN  IF misuse
              THEN /\ result'.resp.code = 400
                   /\ jobs' = jobs
                   /\ collections' = collections
              ELSE /\ result'.resp.code = 200
                   /\ Len(jobs'[l]) = Len(jobs[l]) + 1
                   /\ job_col(l) \in collections']_vars

\* a start-job request answered 200 for lathe 2, which had no collection:
\* its first job record is there, and so is its job collection
WitC28 ==
    /\ result.kind = "start_job"
    /\ result.resp.code = 200
    /\ call.lathe_id = 2
    /\ sensory_col(2) \notin collections
    /\ job_col(2) \in collections
    /\ Len(jobs[2]) = 1

(***************************************************************************)
(* Details requests and concurrent ingestion (SpecConcurrent).             *)
(***************************************************************************)
\* C29 (as claimed): in a details response, current_job and the current_*
\* fields are those of the most recent reading of the batch that was
\* scored, also when a reading is inserted between the reads of the
\* handler.
InvC29 ==
    (/\ result.kind = "details"
     /\ result.resp.code = 200
     /\ "sensor_data" \in DOMAIN call) =>
        LET newest == call.sensor_data[1]
            body == result.resp.body
        IN  /\ body.health_score = Round1(calculate_health_score(call.sensor_data).value)
            /\ body.current_job = newest
            /\ body.current_temperature = Get(newest, "Temperature")
            /\ body.current_vibration = Get(newest, "Vibration")
            /\ body.current_rpm = Get(newest, "RPM")
            /\ body.current_power = Get(newest, "Power")
            /\ body.current_tool_wear = Get(newest, "ToolWear")

(***************************************************************************)
(* Navigation of the front end (SpecFrontend).                             *)
(***************************************************************************)
Buttons ==
    {NoButton, BackButton, BackToDashboardButton}
        \cup {ViewDetailsButton(k) : k \in 1..MaxListed}

\* once the script has run, view is one of the two views
ViewIsKnown ==
    page # NoPage => session_state.view \in {"dashboard", "lathe_details"}

\* the detail page (its content, or its warning that the lathe has no
\* data) is on the screen only while a lathe is selected
DetailsNeedSelection ==
    page.shown \in {"details", "no_details"} =>
        /\ session_state.view = "lathe_details"
        /\ \E k \in 1..MaxListed : session_state.selected_lathe = Num(k)

\* whatever it is given, a run with view = lathe_details and no selected
\* lathe shows nothing, sets view to dashboard and reruns
UnselectedReturns ==
    \A selected \in {Unset, Null, Num(0)}, click \in Buttons,
       n \in 0..MaxListed, lathe_details \in BOOLEAN :
        LET run == RunMain([view |-> "lathe_details", selected_lathe |-> selected],
                           click, LatheList(n), lathe_details)
        IN  run.session.view = "dashboard" /\ run.shown = "rerun"

\* the lathes listed by the run that left the page
Listed == {page.lathes[i].lathe_id : i \in 1..Len(page.lathes)}

\* C30 (as claimed): view is always dashboard or lathe_details; the detail
\* page is shown only while a lathe is selected; a run with view =
\* lathe_details and no selected lathe sets view to dashboard; a click on
\* View Details of lathe k sets selected_lathe = k and view =
\* lathe_details; a click on Back or Back to Dashboard sets view =
\* dashboard.
PropC30 ==
    /\ [](ViewIsKnown /\ DetailsNeedSelection /\ UnselectedReturns)
    /\ [][/\ \A k \in 1..MaxListed :
               page'.click = ViewDetailsButton(k) =>
                   session_state' = [view |-> "lathe_details", selected_lathe |-> Num(k)]
          /\ page'.click \in {BackButton, BackToDashboardButton} =>
                   session_state'.view = "dashboard"]_vars

\* C30 (amended): as claimed, but a click takes effect only when the run
\* it triggers shows the clicked button again: View Details of lathe k when
\* the summary fetched by that run lists lathe k, Back when the details
\* fetched by that run are there, Back to Dashboard when they are not.  A
\* click on a button the run does not show again leaves view and
\* selected_lathe as they are.
PropC30Amended ==
    /\ [](ViewIsKnown /\ DetailsNeedSelection /\ UnselectedReturns)
    /\ [][LET click == page'.click
              shown_again ==
                  \/ \E k \in Listed' : click = ViewDetailsButton(k)
                  \/ click = BackButton /\ page'.lathe_details
                  \/ click = BackToDashboardButton /\ ~page'.lathe_details
          IN  /\ \A k \in 1..MaxListed :
                     (click = ViewDetailsButton(k) /\ shown_again) =>
                         session_state' =
                             [view |-> "lathe_details", selected_lathe |-> Num(k)]
              /\ (click \in {BackButton, BackToDashboardButton} /\ shown_again) =>
                     /\ session_state'.view = "dashboard"
                     /\ session_state'.selected_lathe = session_state.selected_lathe
              /\ (click # NoButton /\ ~shown_again) =>
                     session_state' = session_state]_vars

\* the user has opened the details of lathe 2 and gone back
WitC30 ==
    /\ page.click = BackButton
    /\ page.shown = "rerun"
    /\ session_state = [view |-> "dashboard", selected_lathe |-> Num(2)]

====
